---- MODULE Spec2Model ----
(***************************************************************************)
(* Model of the sales-analysis program: AnalizadorVentas (src/src/         *)
(* analisis.py), the script main (src/main.py) and the call it makes to    *)
(* GeneradorReporte.generar_reporte_completo (src/src/generador_reporte.py).*)
(*                                                                         *)
(* A spreadsheet cell is a record [k, n, s]:                               *)
(*   k = "num"   a number cell, value n                                    *)
(*   k = "txt"   a text cell, characters s (a sequence of 1-char strings)  *)
(*   k = "fecha" a date cell, n = day of the year 2024 (1 = 1 January)     *)
(*   k = "nan"   an empty cell (NaN / NaT / None)                          *)
(* Identity columns (OV, CODIGO, NOMBRE, CATEGORIA, CLIENTE) hold strings, *)
(* the empty cell being the string Nulo.                                   *)
(* Percentages are kept in hundredths (8696 is 86.96); PosInf and NegInf   *)
(* stand for the floating point infinities.                                *)
(***************************************************************************)
EXTENDS Integers, Sequences, FiniteSets, TLC

\* The largest number of data rows of an input file.
MaxRows == 3

----------------------------------------------------------------------------
(* Cells *)

Nulo == "<NaN>"

Num(x) == [k |-> "num", n |-> x, s |-> <<>>]
Txt(t) == [k |-> "txt", n |-> 0, s |-> t]
Fecha(d) == [k |-> "fecha", n |-> d, s |-> <<>>]
NaN == [k |-> "nan", n |-> 0, s |-> <<>>]

EsNulo(c) == c.k = "nan"

\* float('inf') and float('-inf') of a percentage column, outside every
\* finite value the bounded inputs can produce.
PosInf == 1000 * 1000 * 1000
NegInf == 0 - PosInf

Abs(x) == IF x < 0 THEN 0 - x ELSE x

Digitos == <<"0", "1", "2", "3", "4", "5", "6", "7", "8", "9">>

EsDigito(ch) == \E i \in 1..10 : Digitos[i] = ch

ValorDigito(ch) == (CHOOSE i \in 1..10 : Digitos[i] = ch) - 1

RECURSIVE ValorDecimal(_)
ValorDecimal(t) ==
    IF t = <<>> THEN 0
    ELSE 10 * ValorDecimal(SubSeq(t, 1, Len(t) - 1)) + ValorDigito(t[Len(t)])

RECURSIVE Repetir(_, _)
\* Python's str * int: the text repeated n times, empty for n <= 0.
Repetir(t, n) == IF n <= 0 THEN <<>> ELSE t \o Repetir(t, n - 1)

\* pd.to_numeric(cell, errors='coerce'): a number stays, a text of decimal
\* digits is parsed, anything else becomes NaN.
to_numeric(c) ==
    IF c.k = "num" THEN c
    ELSE IF c.k = "txt" /\ c.s # <<>> /\ \A i \in 1..Len(c.s) : EsDigito(c.s[i])
         THEN Num(ValorDecimal(c.s))
         ELSE NaN

\* Whether pd.to_datetime can parse the cell: dates and empty cells can, the
\* text cells of this model (no date text among them) cannot.
FechaLegible(c) == c.k \in {"fecha", "nan"}

\* pd.to_datetime(cell, errors='coerce')
to_datetime_coerce(c) == IF c.k = "fecha" THEN c ELSE NaN

----------------------------------------------------------------------------
(* The calendar of 2024, for the month bucket of a date *)

DiasMes == <<31, 29, 31, 30, 31, 30, 31, 31, 30, 31, 30, 31>>

RECURSIVE DiasHasta(_)
DiasHasta(m) == IF m = 0 THEN 0 ELSE DiasMes[m] + DiasHasta(m - 1)

\* FECHA.dt.to_period('M'): the month 1..12 of day-of-year d.
MesDe(d) == CHOOSE m \in 1..12 : DiasHasta(m - 1) < d /\ d <= DiasHasta(m)

to_period(c) == IF c.k = "fecha" THEN Num(MesDe(c.n)) ELSE NaN

----------------------------------------------------------------------------
(* The input file *)

Columnas ==
    {"OV", "CODIGO", "NOMBRE", "CATEGORIA", "FECHA", "CANT", "PESO NETO",
     "PESO TOTAL", "PRECIO UNITARIO", "FACTURADO", "CLIENTE"}

ColumnasTexto == {"OV", "CODIGO", "NOMBRE", "CATEGORIA", "CLIENTE"}

\* One order line of the export.
Fila(ov, cod, nom, cat, fecha, cant, pneto, ptotal, precio, fact) ==
    ("OV" :> ov) @@ ("CODIGO" :> cod) @@ ("NOMBRE" :> nom) @@
    ("CATEGORIA" :> cat) @@ ("FECHA" :> fecha) @@ ("CANT" :> cant) @@
    ("PESO NETO" :> pneto) @@ ("PESO TOTAL" :> ptotal) @@
    ("PRECIO UNITARIO" :> precio) @@ ("FACTURADO" :> fact) @@
    ("CLIENTE" :> "ACME")

\* The order lines the input files are made of. The first three are the rows
\* of the worked example; the others carry one irregularity each.
FilasPosibles ==
    << Fila("OV1", "A", "NA", "X", Fecha(10), Num(2), Num(5), Num(10), Num(5), Num(2)),
       Fila("OV2", "A", "NA", "X", Fecha(40), Num(1), Num(5), Num(5), Num(5), Num(1)),
       Fila("OV2", "B", "NB", "Y", Fecha(40), Num(1), Num(1), Num(1), Num(100), Num(1)),
       \* no date, no category, zero weight
       Fila("OV3", "B", "NB", Nulo, NaN, Num(4), Num(0), Num(0), Num(5), Num(4)),
       \* a credit note: negative units
       Fila("OV3", "B", "NB", "Y", Fecha(45), Num(0 - 1), Num(1), Num(1), Num(5), Num(0 - 1)),
       \* no product code
       Fila("OV1", Nulo, "NA", "X", Fecha(10), Num(1), Num(1), Num(1), Num(5), Num(1)),
       \* no product name
       Fila("OV1", "A", Nulo, "X", Fecha(10), Num(1), Num(1), Num(1), Num(5), Num(1)),
       \* a date that is not a date
       Fila("OV4", "A", "NA", "X", Txt(<<"a", "b", "c">>), Num(1), Num(1), Num(1), Num(5), Num(1)),
       \* numbers stored as text, and text where numbers should be
       Fila("OV4", "A", "NA", "X", Fecha(70), Txt(<<"x">>), Txt(<<"x">>), Txt(<<"7">>), Num(2), Txt(<<"3">>)),
       \* a unit price that is not a number
       Fila("OV4", "B", "NB", "Y", Fecha(70), Num(1), Num(1), Num(1), Txt(<<"x">>), Num(2)),
       \* an empty invoiced-units cell
       Fila("OV5", "A", "NA", "X", Fecha(100), Num(3), Num(2), Num(6), Num(5), NaN),
       \* a third product, on a later line of the first order
       Fila("OV1", "C", "NC", "Y", Fecha(100), Num(3), Num(1), Num(3), Num(50), Num(3)),
       \* an empty total-weight cell
       Fila("OV5", "C", "NC", "Y", Fecha(100), Num(1), Num(1), NaN, Num(5), Num(1)),
       \* product code A under a second name
       Fila("OV2", "A", "NB", "X", Fecha(40), Num(1), Num(2), Num(2), Num(5), Num(1)) >>

NumFilasPosibles == Len(FilasPosibles)

\* The cell of an absent column.
Vacia(col) == IF col \in ColumnasTexto THEN Nulo ELSE NaN

SinColumna(fila, col) == [c \in DOMAIN fila |-> IF c = col THEN Vacia(c) ELSE fila[c]]

\* Row lists of at most MaxRows rows, one per multiset of FilasPosibles (the
\* rows of a file taken in the order of FilasPosibles).
ListasDeFilas ==
    LET idx == UNION {[1..n -> 1..NumFilasPosibles] : n \in 0..MaxRows}
    IN  {[i \in DOMAIN s |-> FilasPosibles[s[i]]] :
            s \in {t \in idx : \A i \in 1..(Len(t) - 1) : t[i] <= t[i + 1]}}

\* The input files: unreadable; or readable, with the full header or with one
\* column absent.
Archivos ==
    {[legible |-> FALSE, columnas |-> Columnas, filas |-> <<>>]}
    \cup {[legible |-> TRUE, columnas |-> Columnas, filas |-> f] : f \in ListasDeFilas}
    \cup {[legible |-> TRUE, columnas |-> Columnas \ {col},
           filas |-> [i \in DOMAIN f |-> SinColumna(f[i], col)]] :
            f \in ListasDeFilas, col \in Columnas}

----------------------------------------------------------------------------
(* AnalizadorVentas.__init__ and _limpiar_datos *)

Columna(filas, col) == [i \in DOMAIN filas |-> filas[i][col]]

\* The dtype pandas gives a column of number, text and empty cells.
Dtype(valores) ==
    IF \E i \in DOMAIN valores : valores[i].k = "txt" THEN "object"
    ELSE IF \E i \in DOMAIN valores : valores[i].k = "nan" THEN "float64"
    ELSE "int64"

\* The element of a column as Python sees it in an elementwise operation:
\* the numbers of a float64 column are floats.
EsFloat(c, dtype) == c.k = "num" /\ dtype = "float64"

\* a * b raises TypeError: text by text, or text by float.
MulFalla(a, da, b, db) ==
    /\ ~EsNulo(a) /\ ~EsNulo(b)
    /\ \/ a.k = "txt" /\ b.k = "txt"
       \/ a.k = "txt" /\ EsFloat(b, db)
       \/ EsFloat(a, da) /\ b.k = "txt"

\* a * b where it does not raise: empty if either is empty, the product of
\* two numbers, the repetition of a text by an int.
Mul(a, b) ==
    IF EsNulo(a) \/ EsNulo(b) THEN NaN
    ELSE IF a.k = "num" /\ b.k = "num" THEN Num(a.n * b.n)
    ELSE IF a.k = "txt" THEN Txt(Repetir(a.s, b.n))
    ELSE Txt(Repetir(b.s, a.n))

ColumnasNumericas ==
    {"CANT", "PESO NETO", "PRECIO UNITARIO", "FACTURADO", "PESO TOTAL", "MONTO_FACTURADO"}

obtener_nombre_cliente(d) ==
    IF "CLIENTE" \in d.columnas /\ Len(d.filas) > 0
    THEN d.filas[1]["CLIENTE"]
    ELSE "Cliente Desconocido"

\* Conserva with the category added to the subset.
Conserva_ConCategoria(fila) ==
    fila["CODIGO"] # Nulo /\ fila["NOMBRE"] # Nulo /\ fila["CATEGORIA"] # Nulo

\* Conserva with the name left out of the subset.
Conserva_SoloCodigo(fila) == fila["CODIGO"] # Nulo

\* The rows kept by dropna(subset=['CODIGO', 'NOMBRE']).
Conserva(fila) == fila["CODIGO"] # Nulo /\ fila["NOMBRE"] # Nulo

RECURSIVE dropna(_)
dropna(filas) ==
    IF filas = <<>> THEN <<>>
    ELSE IF Conserva(Head(filas)) THEN <<Head(filas)>> \o dropna(Tail(filas))
    ELSE dropna(Tail(filas))

\* The row after the coercions of _limpiar_datos, with its month bucket.
LimpiarFila(fila, columnas) ==
    LET coer == [c \in DOMAIN fila |->
                    IF c = "FECHA" /\ c \in columnas THEN to_datetime_coerce(fila[c])
                    ELSE IF c \in ColumnasNumericas /\ c \in columnas THEN to_numeric(fila[c])
                    ELSE fila[c]]
    IN  coer @@ ("MES_ANIO" :> to_period(coer["FECHA"]))

\* _limpiar_datos on the frame d; [ok, error, df].
limpiar_datos(d) ==
    IF ~({"CODIGO", "NOMBRE"} \subseteq d.columnas)
    THEN [ok |-> FALSE, error |-> "KeyError", df |-> d]
    ELSE LET vivas == dropna(d.filas)
         IN  [ok |-> TRUE, error |-> "",
              df |-> [columnas |-> d.columnas \cup (IF "FECHA" \in d.columnas THEN {"MES_ANIO"} ELSE {}),
                      filas |-> [i \in DOMAIN vivas |-> LimpiarFila(vivas[i], d.columnas)]]]

FrameVacio == [columnas |-> {}, filas |-> <<>>]

Fallo(e) == [ok |-> FALSE, error |-> e, df |-> FrameVacio, cliente |-> ""]

\* AnalizadorVentas(ruta_excel) on the file a: [ok, error, df, cliente].
init_de(a) ==
    IF ~a.legible THEN Fallo("OSError")
    ELSE IF "FECHA" \notin a.columnas THEN Fallo("KeyError")
    ELSE IF \E i \in DOMAIN a.filas : ~FechaLegible(a.filas[i]["FECHA"]) THEN Fallo("ValueError")
    ELSE IF ~({"FACTURADO", "PRECIO UNITARIO"} \subseteq a.columnas) THEN Fallo("KeyError")
    ELSE
      LET df_ == Dtype(Columna(a.filas, "FACTURADO"))
          dp == Dtype(Columna(a.filas, "PRECIO UNITARIO"))
      IN  IF \E i \in DOMAIN a.filas :
                 MulFalla(a.filas[i]["FACTURADO"], df_, a.filas[i]["PRECIO UNITARIO"], dp)
          THEN Fallo("TypeError")
          ELSE
            LET conMonto == [i \in DOMAIN a.filas |->
                    a.filas[i] @@ ("MONTO_FACTURADO" :>
                        Mul(a.filas[i]["FACTURADO"], a.filas[i]["PRECIO UNITARIO"]))]
                d == [columnas |-> a.columnas \cup {"MONTO_FACTURADO"}, filas |-> conMonto]
                l == limpiar_datos(d)
            IN  IF l.ok
                THEN [ok |-> TRUE, error |-> "", df |-> l.df,
                      cliente |-> obtener_nombre_cliente(d)]
                ELSE Fallo(l.error)

----------------------------------------------------------------------------
(* Helpers shared by the analysis operations *)

\* Series.sum(): the empty cells are skipped, the sum of nothing is 0.
RECURSIVE Suma(_, _)
Suma(filas, col) ==
    IF filas = <<>> THEN 0
    ELSE (IF Head(filas)[col].k = "num" THEN Head(filas)[col].n ELSE 0)
         + Suma(Tail(filas), col)

\* The alphabetical order of the texts of the identity columns.
OrdenTexto ==
    <<"A", "ACME", "B", "C", "NA", "NB", "NC", "OV1", "OV2", "OV3", "OV4", "OV5", "X", "Y">>

Rango(t) == CHOOSE i \in 1..Len(OrdenTexto) : OrdenTexto[i] = t

\* (code, name) pairs in the order groupby gives its groups: sorted by key.
ClaveMenor(a, b) ==
    \/ Rango(a[1]) < Rango(b[1])
    \/ a[1] = b[1] /\ Rango(a[2]) < Rango(b[2])

RECURSIVE OrdenarClaves(_)
OrdenarClaves(S) ==
    IF S = {} THEN <<>>
    ELSE LET m == CHOOSE x \in S : \A y \in S \ {x} : ClaveMenor(x, y)
         IN  <<m>> \o OrdenarClaves(S \ {m})

\* df.groupby(['CODIGO', 'NOMBRE']).agg(sum).reset_index(): one row per
\* product, rows with an empty key left out, groups in key order.
groupby_producto(d) ==
    LET claves == {<<d.filas[i]["CODIGO"], d.filas[i]["NOMBRE"]>> :
                      i \in {j \in DOMAIN d.filas : Conserva(d.filas[j])}}
        orden == OrdenarClaves(claves)
        DeClave(c) == LET EsDe(f) == f["CODIGO"] = c[1] /\ f["NOMBRE"] = c[2]
                      IN  SelectSeq(d.filas, EsDe)
    IN  [i \in DOMAIN orden |->
            ("CODIGO" :> orden[i][1]) @@ ("NOMBRE" :> orden[i][2]) @@
            ("CANT" :> Suma(DeClave(orden[i]), "CANT")) @@
            ("PESO TOTAL" :> Suma(DeClave(orden[i]), "PESO TOTAL")) @@
            ("MONTO_FACTURADO" :> Suma(DeClave(orden[i]), "MONTO_FACTURADO"))]

\* sort_values is called without kind= everywhere, so it sorts with numpy's
\* quicksort, which does not promise to keep rows of equal key in their order
\* (only kind='stable' and 'mergesort' do): what happens to ties depends on
\* the numpy build. estable is the build at hand: TRUE when it leaves ties in
\* their order, FALSE when it turns them around.
VARIABLE estable

\* x goes after the row h of equal or greater key.
Despues(h, x) == h > x \/ (estable /\ h = x)

\* Insert row x into the descending sequence sec: after every greater row,
\* and after or before the rows of equal value as the build orders ties.
RECURSIVE Insertar(_, _, _)
Insertar(sec, x, col) ==
    IF sec = <<>> THEN <<x>>
    ELSE IF Despues(Head(sec)[col], x[col]) THEN <<Head(sec)>> \o Insertar(Tail(sec), x, col)
    ELSE <<x>> \o sec

\* sort_values(col, ascending=False) of a table whose column col holds
\* numbers.
RECURSIVE sort_desc(_, _)
sort_desc(sec, col) ==
    IF sec = <<>> THEN <<>>
    ELSE Insertar(sort_desc(SubSeq(sec, 1, Len(sec) - 1), col), sec[Len(sec)], col)

\* Redondear truncating instead of rounding.
Redondear_Truncar(n, d) == IF d < 0 THEN (0 - n) \div (0 - d) ELSE n \div d

\* round(n / d) to the nearest integer, a tie to the even one.
Redondear(n, d) ==
    LET nn == IF d < 0 THEN 0 - n ELSE n
        dd == Abs(d)
        q == nn \div dd
        r == nn % dd
    IN  IF 2 * r < dd THEN q
        ELSE IF 2 * r > dd THEN q + 1
        ELSE IF q % 2 = 0 THEN q ELSE q + 1

\* (valor / total * 100).fillna(0).round(2), in hundredths: 0 / 0 is NaN and
\* is filled with 0; x / 0 is an infinity, which fillna leaves.
Porcentaje(valor, total) ==
    IF total = 0
    THEN IF valor = 0 THEN 0 ELSE IF valor > 0 THEN PosInf ELSE NegInf
    ELSE Redondear(valor * 10000, total)

RECURSIVE SumaCol(_, _)
\* The sum of the number column col of a table of aggregates.
SumaCol(sec, col) == IF sec = <<>> THEN 0 ELSE Head(sec)[col] + SumaCol(Tail(sec), col)

\* The table sorted by col, descending, with cumsum() and the two percentage
\* columns.
TablaPareto(grupos, col) ==
    LET orden == sort_desc(grupos, col)
        total == SumaCol(orden, col)
    IN  [i \in DOMAIN orden |->
            orden[i] @@
            ("Acumulado" :> SumaCol(SubSeq(orden, 1, i), col)) @@
            ("% Acumulado" :> Porcentaje(SumaCol(SubSeq(orden, 1, i), col), total)) @@
            ("% Individual" :> Porcentaje(orden[i][col], total))]

----------------------------------------------------------------------------
(* The analysis operations, as functions of the cleaned frame d.           *)
(* Each gives [ok, error, val]: val = <<result>>, or <<>> when it raises.  *)

Ok(v) == [ok |-> TRUE, error |-> "", val |-> <<v>>]
Err(e) == [ok |-> FALSE, error |-> e, val |-> <<>>]

\* Series.nunique() of an identity column: the distinct non-empty values.
nunique(filas, col) == Cardinality({filas[i][col] : i \in DOMAIN filas} \ {Nulo})

\* The distinct non-empty values of an identity column, in key order.
RECURSIVE OrdenarTextos(_)
OrdenarTextos(S) ==
    IF S = {} THEN <<>>
    ELSE LET m == CHOOSE x \in S : \A y \in S : Rango(x) <= Rango(y)
         IN  <<m>> \o OrdenarTextos(S \ {m})

\* mean() of sumas in hundredths, NaN for none.
Media(total, cuantos) == IF cuantos = 0 THEN NaN ELSE Num(Redondear(total * 100, cuantos))

resumen_general_de(d, cliente) ==
    IF ~({"OV", "PESO TOTAL", "CANT"} \subseteq d.columnas) THEN Err("KeyError")
    ELSE Ok([cliente |-> cliente,
             total_facturado |-> Suma(d.filas, "MONTO_FACTURADO"),
             total_ordenes |-> nunique(d.filas, "OV"),
             productos_unicos |-> nunique(d.filas, "CODIGO"),
             peso_total |-> Suma(d.filas, "PESO TOTAL"),
             cantidad_total |-> Suma(d.filas, "CANT"),
             \* the mean over the orders of the order's sum is the grand sum of
             \* the rows that have an order id, over the number of orders
             ticket_promedio |->
                LET conOV(f) == f["OV"] # Nulo
                IN  Media(Suma(SelectSeq(d.filas, conOV), "MONTO_FACTURADO"), nunique(d.filas, "OV")),
             peso_promedio_orden |->
                LET conOV(f) == f["OV"] # Nulo
                IN  Media(Suma(SelectSeq(d.filas, conOV), "PESO TOTAL"), nunique(d.filas, "OV")),
             precio_promedio_kg |->
                IF Suma(d.filas, "PESO TOTAL") > 0
                THEN Redondear(Suma(d.filas, "MONTO_FACTURADO") * 100, Suma(d.filas, "PESO TOTAL"))
                ELSE 0])

Head_n(sec, n) == SubSeq(sec, 1, IF Len(sec) < n THEN Len(sec) ELSE n)

TopN == 10

\* The smallest top_n an API client passes.
MinTop == 2

top_productos_cantidad_de(d, top_n) ==
    IF ~({"PESO TOTAL", "CANT"} \subseteq d.columnas) THEN Err("KeyError")
    ELSE LET top == Head_n(sort_desc(groupby_producto(d), "CANT"), top_n)
         IN  Ok([i \in DOMAIN top |->
                    [Codigo |-> top[i]["CODIGO"], Nombre |-> top[i]["NOMBRE"],
                     CantidadTotal |-> top[i]["CANT"],
                     FacturacionTotal |-> top[i]["MONTO_FACTURADO"],
                     PesoTotal |-> top[i]["PESO TOTAL"]]])

top_productos_facturacion_de(d, top_n) ==
    IF ~({"PESO TOTAL", "CANT"} \subseteq d.columnas) THEN Err("KeyError")
    ELSE LET top == Head_n(sort_desc(groupby_producto(d), "MONTO_FACTURADO"), top_n)
         IN  Ok([i \in DOMAIN top |->
                    [Codigo |-> top[i]["CODIGO"], Nombre |-> top[i]["NOMBRE"],
                     FacturacionTotal |-> top[i]["MONTO_FACTURADO"],
                     CantidadTotal |-> top[i]["CANT"],
                     PesoTotal |-> top[i]["PESO TOTAL"]]])

\* Vital with a strict comparison.
Vital_Estricto(fila) == fila["% Acumulado"] < 8000

\* productos[productos['% Acumulado'] <= 80]
Vital(fila) == fila["% Acumulado"] <= 8000

\* Trivial with the boundary included.
Trivial_Desde80(fila) == fila["% Acumulado"] >= 8000

\* productos[productos['% Acumulado'] > 80]
Trivial(fila) == fila["% Acumulado"] > 8000

\* round(count / total_productos * 100, 2) if total_productos > 0 else 0
PorcentajeProductos(cuenta, total_productos) ==
    IF total_productos > 0 THEN Redondear(cuenta * 10000, total_productos) ELSE 0

\* groupby(['CODIGO', 'NOMBRE']).agg({'MONTO_FACTURADO': 'sum'}) needs only
\* columns every constructed analyzer has: analisis_pareto never raises.
analisis_pareto_de(d) ==
    LET productos == TablaPareto(groupby_producto(d), "MONTO_FACTURADO")
        productos_80 == SelectSeq(productos, Vital)
        productos_20 == SelectSeq(productos, Trivial)
        total_productos == Len(productos)
    IN  Ok([total_productos |-> total_productos,
            productos_80_count |-> Len(productos_80),
            porcentaje_productos_80 |-> PorcentajeProductos(Len(productos_80), total_productos),
            facturacion_80 |-> SumaCol(productos_80, "MONTO_FACTURADO"),
            productos_20_count |-> Len(productos_20),
            porcentaje_productos_20 |-> PorcentajeProductos(Len(productos_20), total_productos),
            facturacion_20 |-> SumaCol(productos_20, "MONTO_FACTURADO"),
            dataframe |-> [i \in DOMAIN productos |->
                [Codigo |-> productos[i]["CODIGO"], Nombre |-> productos[i]["NOMBRE"],
                 Valor |-> productos[i]["MONTO_FACTURADO"],
                 Acumulado |-> productos[i]["Acumulado"],
                 PctAcumulado |-> productos[i]["% Acumulado"],
                 PctIndividual |-> productos[i]["% Individual"]]]])

\* The three Pareto tables of the prioritisation sheets: col is the metric.
ParetoPor(d, col) ==
    IF ~({"PESO TOTAL", "CANT"} \subseteq d.columnas) THEN Err("KeyError")
    ELSE LET productos == TablaPareto(groupby_producto(d), col)
         IN  Ok([i \in DOMAIN productos |->
                    [Codigo |-> productos[i]["CODIGO"], Nombre |-> productos[i]["NOMBRE"],
                     Valor |-> productos[i][col],
                     Facturacion |-> productos[i]["MONTO_FACTURADO"],
                     PesoTotal |-> productos[i]["PESO TOTAL"],
                     Cantidad |-> productos[i]["CANT"],
                     Acumulado |-> productos[i]["Acumulado"],
                     PctAcumulado |-> productos[i]["% Acumulado"],
                     PctIndividual |-> productos[i]["% Individual"]]])

pareto_por_peso_de(d) == ParetoPor(d, "PESO TOTAL")

pareto_por_cantidad_de(d) == ParetoPor(d, "CANT")

pareto_por_facturacion_de(d) == ParetoPor(d, "MONTO_FACTURADO")

\* The rows of d whose identity column col holds v.
FilasDe(d, col, v) == LET EsDe(f) == f[col] = v IN SelectSeq(d.filas, EsDe)

analisis_categorias_de(d) ==
    IF "CATEGORIA" \notin d.columnas THEN Ok(<<>>)
    ELSE IF ~({"OV", "PESO TOTAL", "CANT"} \subseteq d.columnas) THEN Err("KeyError")
    ELSE
      LET claves == OrdenarTextos({d.filas[i]["CATEGORIA"] : i \in DOMAIN d.filas} \ {Nulo})
          grupos == [i \in DOMAIN claves |->
                        ("CATEGORIA" :> claves[i]) @@
                        ("MONTO_FACTURADO" :> Suma(FilasDe(d, "CATEGORIA", claves[i]), "MONTO_FACTURADO")) @@
                        ("CANT" :> Suma(FilasDe(d, "CATEGORIA", claves[i]), "CANT")) @@
                        ("PESO TOTAL" :> Suma(FilasDe(d, "CATEGORIA", claves[i]), "PESO TOTAL")) @@
                        ("OV" :> nunique(FilasDe(d, "CATEGORIA", claves[i]), "OV"))]
          total_facturado == SumaCol(grupos, "MONTO_FACTURADO")
          orden == sort_desc(grupos, "MONTO_FACTURADO")
      IN  Ok([i \in DOMAIN orden |->
                [Categoria |-> orden[i]["CATEGORIA"],
                 Facturacion |-> orden[i]["MONTO_FACTURADO"],
                 Cantidad |-> orden[i]["CANT"],
                 PesoTotal |-> orden[i]["PESO TOTAL"],
                 Ordenes |-> orden[i]["OV"],
                 PctFacturacion |->
                    IF total_facturado > 0
                    THEN Porcentaje(orden[i]["MONTO_FACTURADO"], total_facturado)
                    ELSE 0]])

\* The months that occur in d, ascending.
RECURSIVE OrdenarNumeros(_)
OrdenarNumeros(S) ==
    IF S = {} THEN <<>>
    ELSE LET m == CHOOSE x \in S : \A y \in S : x <= y
         IN  <<m>> \o OrdenarNumeros(S \ {m})

Meses(d) ==
    OrdenarNumeros({d.filas[i]["MES_ANIO"].n :
                       i \in {j \in DOMAIN d.filas : ~EsNulo(d.filas[j]["MES_ANIO"])}})

FilasDelMes(d, m) ==
    LET EsDe(f) == ~EsNulo(f["MES_ANIO"]) /\ f["MES_ANIO"].n = m IN SelectSeq(d.filas, EsDe)

ventas_por_mes_de(d) ==
    IF "MES_ANIO" \notin d.columnas THEN Ok(<<>>)
    ELSE IF ~({"OV", "PESO TOTAL", "CANT"} \subseteq d.columnas) THEN Err("KeyError")
    ELSE LET meses == Meses(d)
         IN  Ok([i \in DOMAIN meses |->
                    [Mes |-> meses[i],
                     Facturacion |-> Suma(FilasDelMes(d, meses[i]), "MONTO_FACTURADO"),
                     Cantidad |-> Suma(FilasDelMes(d, meses[i]), "CANT"),
                     Ordenes |-> nunique(FilasDelMes(d, meses[i]), "OV"),
                     PesoTotal |-> Suma(FilasDelMes(d, meses[i]), "PESO TOTAL")]])

\* Insert x into sec, descending by MONTO_FACTURADO / PESO TOTAL (the weights
\* are positive), rows of equal ratio ordered as the build orders ties.
RECURSIVE InsertarPorRazon(_, _)
InsertarPorRazon(sec, x) ==
    IF sec = <<>> THEN <<x>>
    ELSE IF Despues(Head(sec)["MONTO_FACTURADO"] * x["PESO TOTAL"],
                    x["MONTO_FACTURADO"] * Head(sec)["PESO TOTAL"])
         THEN <<Head(sec)>> \o InsertarPorRazon(Tail(sec), x)
         ELSE <<x>> \o sec

\* OrdenarPorRazon leaving the rows as they are.
OrdenarPorRazon_SinOrdenar(sec) == sec

RECURSIVE OrdenarPorRazon(_)
OrdenarPorRazon(sec) ==
    IF sec = <<>> THEN <<>>
    ELSE InsertarPorRazon(OrdenarPorRazon(SubSeq(sec, 1, Len(sec) - 1)), sec[Len(sec)])

\* productos[productos['PESO TOTAL'] > 0]
ConPeso(g) == g["PESO TOTAL"] > 0

productos_precio_alto_kg_de(d, top_n) ==
    IF ~({"PESO TOTAL", "CANT"} \subseteq d.columnas) THEN Err("KeyError")
    ELSE LET productos == Head_n(OrdenarPorRazon(SelectSeq(groupby_producto(d), ConPeso)), top_n)
         IN  Ok([i \in DOMAIN productos |->
                    [Codigo |-> productos[i]["CODIGO"], Nombre |-> productos[i]["NOMBRE"],
                     \* Precio/Kg, in hundredths
                     PrecioKg |-> Redondear(productos[i]["MONTO_FACTURADO"] * 100,
                                            productos[i]["PESO TOTAL"]),
                     FacturacionTotal |-> productos[i]["MONTO_FACTURADO"],
                     PesoTotal |-> productos[i]["PESO TOTAL"]]])

\* pct_change with the change taken against the current month.
pct_change_SobreActual(actual, anterior) == Porcentaje(actual - anterior, actual)

\* (pct_change() * 100).fillna(0).round(2) of a month after the first, in
\* hundredths.
pct_change(actual, anterior) == Porcentaje(actual - anterior, anterior)

crecimiento_mensual_de(d) ==
    IF "MES_ANIO" \notin d.columnas THEN Ok(<<>>)
    ELSE LET meses == Meses(d)
             monto(i) == Suma(FilasDelMes(d, meses[i]), "MONTO_FACTURADO")
         IN  Ok([i \in DOMAIN meses |->
                    [Mes |-> meses[i],
                     Facturacion |-> monto(i),
                     \* pct_change() * 100, fillna(0), round(2)
                     Crecimiento |-> IF i = 1 THEN 0
                                     ELSE pct_change(monto(i), monto(i - 1)),
                     \* diff(): the first month has none
                     Diferencia |-> IF i = 1 THEN NaN ELSE Num(monto(i) - monto(i - 1))]])

\* The text 'N/A'.
NA == Txt(<<"N", "/", "A">>)

\* 30.44 days, the month of compras_por_mes, in hundredths of a day.
DiasPorMes == 3044

\* FechaMinima taking the latest date.
FechaMinima_Ultima(filas) ==
    LET dias == {filas[i]["FECHA"].n : i \in {j \in DOMAIN filas : ~EsNulo(filas[j]["FECHA"])}}
    IN  IF dias = {} THEN NaN ELSE Fecha(CHOOSE x \in dias : \A y \in dias : x >= y)

\* groupby('OV')['FECHA'].min(): the earliest date of the order, NaT when
\* none of its rows has one.
FechaMinima(filas) ==
    LET dias == {filas[i]["FECHA"].n : i \in {j \in DOMAIN filas : ~EsNulo(filas[j]["FECHA"])}}
    IN  IF dias = {} THEN NaN ELSE Fecha(CHOOSE x \in dias : \A y \in dias : x <= y)

RECURSIVE InsertarFecha(_, _)
\* Insert order x into sec, ascending by date, the orders of the same date
\* ordered as the build orders ties.
InsertarFecha(sec, x) ==
    IF sec = <<>> THEN <<x>>
    ELSE IF Despues(x.fecha.n, Head(sec).fecha.n) THEN <<Head(sec)>> \o InsertarFecha(Tail(sec), x)
    ELSE <<x>> \o sec

RECURSIVE OrdenarFechas(_)
OrdenarFechas(sec) ==
    IF sec = <<>> THEN <<>>
    ELSE InsertarFecha(OrdenarFechas(SubSeq(sec, 1, Len(sec) - 1)), sec[Len(sec)])

ConFecha(o) == ~EsNulo(o.fecha)
SinFecha(o) == EsNulo(o.fecha)

\* The orders with their earliest date, by sort_values(): ascending, the
\* orders without a date last.
OrdenesPorFecha(d) ==
    LET claves == OrdenarTextos({d.filas[i]["OV"] : i \in DOMAIN d.filas} \ {Nulo})
        ordenes == [i \in DOMAIN claves |->
                        [ov |-> claves[i], fecha |-> FechaMinima(FilasDe(d, "OV", claves[i]))]]
    IN  OrdenarFechas(SelectSeq(ordenes, ConFecha)) \o SelectSeq(ordenes, SinFecha)

\* ordenes.diff().dt.days.dropna(): the gaps between consecutive orders that
\* both have a date.
Diferencias(ordenes) ==
    LET pares == {i \in 2..Len(ordenes) : ConFecha(ordenes[i]) /\ ConFecha(ordenes[i - 1])}
        orden == OrdenarNumeros(pares)
    IN  [k \in DOMAIN orden |-> ordenes[orden[k]].fecha.n - ordenes[orden[k] - 1].fecha.n]

RECURSIVE SumaSec(_)
SumaSec(sec) == IF sec = <<>> THEN 0 ELSE Head(sec) + SumaSec(Tail(sec))

frecuencia_compra_de(d) ==
    IF "FECHA" \notin d.columnas \/ \A i \in DOMAIN d.filas : EsNulo(d.filas[i]["FECHA"])
    THEN Ok([dias_entre_compras |-> 0, compras_por_mes |-> 0,
             primera_compra |-> NA, ultima_compra |-> NA,
             dias_totales |-> 0, total_ordenes |-> 0])
    ELSE IF "OV" \notin d.columnas THEN Err("KeyError")
    ELSE
      LET ordenes == OrdenesPorFecha(d)
      IN  IF Len(ordenes) < 2
          THEN IF Len(ordenes) > 0 /\ EsNulo(ordenes[1].fecha)
               THEN Err("ValueError")   \* NaT.strftime
               ELSE Ok([dias_entre_compras |-> 0,
                        \* len(ordenes), in hundredths
                        compras_por_mes |-> Len(ordenes) * 100,
                        primera_compra |-> IF Len(ordenes) > 0 THEN ordenes[1].fecha ELSE NA,
                        ultima_compra |-> IF Len(ordenes) > 0 THEN ordenes[1].fecha ELSE NA,
                        dias_totales |-> 0,
                        total_ordenes |-> Len(ordenes)])
          ELSE
            LET diferencias == Diferencias(ordenes)
                primera_compra == ordenes[1].fecha
                ultima_compra == ordenes[Len(ordenes)].fecha
            IN  IF EsNulo(ultima_compra)
                THEN Err("ValueError")   \* ultima_compra.strftime on NaT
                ELSE
                  LET dias_totales == ultima_compra.n - primera_compra.n
                  IN  Ok([\* round(mean, 1), in tenths of a day
                          dias_entre_compras |->
                              IF Len(diferencias) = 0 THEN 0
                              ELSE Redondear(SumaSec(diferencias) * 10, Len(diferencias)),
                          \* round(len / (dias_totales / 30.44), 2), in hundredths
                          compras_por_mes |->
                              IF dias_totales > 0
                              THEN Redondear(Len(ordenes) * DiasPorMes, dias_totales)
                              ELSE 0,
                          primera_compra |-> primera_compra,
                          ultima_compra |-> ultima_compra,
                          dias_totales |-> dias_totales,
                          total_ordenes |-> Len(ordenes)])

\* (n / d).fillna(0).round(k), in units of 1 / escala: 0 / 0 is NaN and is
\* filled with 0; x / 0 is an infinity, which fillna leaves.
Cociente(n, d, escala) ==
    IF d = 0
    THEN IF n = 0 THEN 0 ELSE IF n > 0 THEN PosInf ELSE NegInf
    ELSE Redondear(n * escala, d)

\* Series.max() of the number column col; NaN for the empty table.
RECURSIVE Maximo(_, _)
Maximo(sec, col) ==
    IF sec = <<>> THEN NaN
    ELSE LET r == Maximo(Tail(sec), col)
         IN  IF EsNulo(r) \/ Head(sec)[col] >= r.n THEN Num(Head(sec)[col]) ELSE r

\* The product aggregates with the unit metrics of matriz_decision:
\* 'Peso Unitario (kg)' in thousandths, 'S/ por Unidad' and 'S/ por Kg' in
\* hundredths.
MetricasUnitarias(grupos) ==
    [i \in DOMAIN grupos |->
        grupos[i] @@
        ("Peso Unitario (kg)" :> Cociente(grupos[i]["PESO TOTAL"], grupos[i]["CANT"], 1000)) @@
        ("S/ por Unidad" :> Cociente(grupos[i]["MONTO_FACTURADO"], grupos[i]["CANT"], 100)) @@
        ("S/ por Kg" :> Cociente(grupos[i]["MONTO_FACTURADO"], grupos[i]["PESO TOTAL"], 100))]

\* ((S/ por Kg / max_precio_kg) * 100).fillna(0).round(2) if max_precio_kg > 0
\* else 0, in hundredths. Against an infinite maximum a finite value gives 0
\* and an infinite one NaN, filled with 0; -inf against a finite maximum
\* stays -inf.
EficienciaFundicion(precio_kg, max_precio_kg) ==
    IF EsNulo(max_precio_kg) \/ max_precio_kg.n <= 0 THEN 0
    ELSE IF max_precio_kg.n = PosInf THEN 0
    ELSE IF precio_kg = NegInf THEN NegInf
    ELSE Redondear(precio_kg * 10000, max_precio_kg.n)

\* EficienciaManoObra without the inversion: CANT / max_cantidad * 100.
EficienciaManoObra_SinInvertir(cant, max_cantidad) ==
    IF EsNulo(max_cantidad) \/ max_cantidad.n <= 0 THEN 0
    ELSE Redondear(cant * 10000, max_cantidad.n)

\* ((1 - CANT / max_cantidad) * 100).fillna(0).round(2) if max_cantidad > 0
\* else 0, in hundredths.
EficienciaManoObra(cant, max_cantidad) ==
    IF EsNulo(max_cantidad) \/ max_cantidad.n <= 0 THEN 0
    ELSE Redondear((max_cantidad.n - cant) * 10000, max_cantidad.n)

\* IndiceGlobal with the two weights exchanged.
IndiceGlobal_PesosCambiados(fundicion, mano_obra) ==
    IF fundicion = NegInf THEN NegInf ELSE Redondear(4 * fundicion + 6 * mano_obra, 10)

\* (Eficiencia Fundicion * 0.6 + Eficiencia Mano Obra * 0.4).round(2), in
\* hundredths.
IndiceGlobal(fundicion, mano_obra) ==
    IF fundicion = NegInf THEN NegInf ELSE Redondear(6 * fundicion + 4 * mano_obra, 10)

clasificar_prioridad(indice) ==
    IF indice >= 7000 THEN "Alta"
    ELSE IF indice >= 4000 THEN "Media"
    ELSE "Baja"

\* The template of the recommendation and the values it formats: the price
\* per kg for 'Alta' and 'Baja', int(CANT) for 'Baja'. The sums of a group are
\* never NaN, so int() does not raise.
generar_recomendacion(row) ==
    IF row["Prioridad"] = "Alta" THEN <<"ACEPTAR", row["S/ por Kg"]>>
    ELSE IF row["Prioridad"] = "Media" THEN <<"EVALUAR">>
    ELSE <<"RECHAZAR", row["S/ por Kg"], row["CANT"]>>

\* DataFrame.apply(f, axis=1) of a frame without rows gives a frame, not a
\* Series, and assigning a frame of several columns to one column raises
\* ValueError: matriz_decision and segmentacion_bcg raise on the empty
\* dataset.
matriz_decision_de(d) ==
    IF ~({"PESO TOTAL", "CANT"} \subseteq d.columnas) THEN Err("KeyError")
    ELSE
      LET productos == MetricasUnitarias(groupby_producto(d))
          max_precio_kg == Maximo(productos, "S/ por Kg")
          max_cantidad == Maximo(productos, "CANT")
          conIndice == [i \in DOMAIN productos |->
                productos[i] @@
                ("Indice Global" :>
                    IndiceGlobal(EficienciaFundicion(productos[i]["S/ por Kg"], max_precio_kg),
                                 EficienciaManoObra(productos[i]["CANT"], max_cantidad)))]
          conPrioridad == [i \in DOMAIN conIndice |->
                conIndice[i] @@
                ("Prioridad" :> clasificar_prioridad(conIndice[i]["Indice Global"]))]
          orden == sort_desc(conPrioridad, "Indice Global")
      IN  IF productos = <<>> THEN Err("ValueError")
          ELSE Ok([i \in DOMAIN orden |->
                    [Codigo |-> orden[i]["CODIGO"], Nombre |-> orden[i]["NOMBRE"],
                     CantidadTotal |-> orden[i]["CANT"],
                     PesoTotal |-> orden[i]["PESO TOTAL"],
                     FacturacionTotal |-> orden[i]["MONTO_FACTURADO"],
                     PesoUnitario |-> orden[i]["Peso Unitario (kg)"],
                     SolesPorUnidad |-> orden[i]["S/ por Unidad"],
                     SolesPorKg |-> orden[i]["S/ por Kg"],
                     IndiceGlobal |-> orden[i]["Indice Global"],
                     Prioridad |-> orden[i]["Prioridad"],
                     Recomendacion |-> generar_recomendacion(orden[i])]])

\* Insert x into the ascending sequence of numbers sec.
RECURSIVE InsertarNumero(_, _)
InsertarNumero(sec, x) ==
    IF sec = <<>> THEN <<x>>
    ELSE IF Head(sec) <= x THEN <<Head(sec)>> \o InsertarNumero(Tail(sec), x)
    ELSE <<x>> \o sec

\* The values of column col of a table, ascending, repetitions kept.
RECURSIVE ValoresOrdenados(_, _)
ValoresOrdenados(sec, col) ==
    IF sec = <<>> THEN <<>>
    ELSE InsertarNumero(ValoresOrdenados(Tail(sec), col), Head(sec)[col])

\* DobleMediana with the largest value in the place of the median.
DobleMediana_Maximo(sec, col) ==
    LET v == ValoresOrdenados(sec, col) IN 2 * v[Len(v)]

\* Twice Series.median() of column col of a table with rows: the middle
\* value, or the mean of the two middle values.
DobleMediana(sec, col) ==
    LET v == ValoresOrdenados(sec, col)
        n == Len(v)
    IN  IF n % 2 = 1 THEN 2 * v[(n + 1) \div 2]
        ELSE v[n \div 2] + v[n \div 2 + 1]

\* Alto with a strict comparison.
Alto_Estricto(valor, doble_mediana) == 2 * valor > doble_mediana

\* row[col] >= mediana
Alto(valor, doble_mediana) == 2 * valor >= doble_mediana

clasificar_bcg(alto_peso, alta_facturacion) ==
    IF alto_peso /\ alta_facturacion THEN "Estrellas"
    ELSE IF ~alto_peso /\ alta_facturacion THEN "Vacas Lecheras"
    ELSE IF alto_peso /\ ~alta_facturacion THEN "Desafiantes"
    ELSE "Perros"

generar_estrategia(segmento) ==
    IF segmento = "Estrellas" THEN "Mantener y crecer"
    ELSE IF segmento = "Vacas Lecheras" THEN "MAXIMA PRIORIDAD"
    ELSE IF segmento = "Desafiantes" THEN "Revisar precios"
    ELSE "Considerar descontinuar"

\* orden_segmentos with Estrellas before Vacas Lecheras.
orden_segmentos_EstrellasPrimero(segmento) ==
    IF segmento = "Estrellas" THEN 1
    ELSE IF segmento = "Vacas Lecheras" THEN 2
    ELSE IF segmento = "Desafiantes" THEN 3
    ELSE 4

orden_segmentos(segmento) ==
    IF segmento = "Vacas Lecheras" THEN 1
    ELSE IF segmento = "Estrellas" THEN 2
    ELSE IF segmento = "Desafiantes" THEN 3
    ELSE 4

\* Insert row x into the ascending sequence sec: after every smaller row, and
\* after or before the rows of equal value as the build orders ties.
RECURSIVE InsertarAsc(_, _, _)
InsertarAsc(sec, x, col) ==
    IF sec = <<>> THEN <<x>>
    ELSE IF Despues(x[col], Head(sec)[col]) THEN <<Head(sec)>> \o InsertarAsc(Tail(sec), x, col)
    ELSE <<x>> \o sec

\* sort_values(col)
RECURSIVE sort_asc(_, _)
sort_asc(sec, col) ==
    IF sec = <<>> THEN <<>>
    ELSE InsertarAsc(sort_asc(SubSeq(sec, 1, Len(sec) - 1), col), sec[Len(sec)], col)

segmentacion_bcg_de(d) ==
    IF ~({"PESO TOTAL", "CANT"} \subseteq d.columnas) THEN Err("KeyError")
    ELSE
      LET productos == groupby_producto(d)
      IN  IF productos = <<>> THEN Err("ValueError")
          ELSE
            LET mediana_peso == DobleMediana(productos, "PESO TOTAL")
                mediana_facturacion == DobleMediana(productos, "MONTO_FACTURADO")
                conSegmento == [i \in DOMAIN productos |->
                    LET seg == clasificar_bcg(Alto(productos[i]["PESO TOTAL"], mediana_peso),
                                              Alto(productos[i]["MONTO_FACTURADO"], mediana_facturacion))
                    IN  productos[i] @@ ("Segmento BCG" :> seg) @@ ("Orden" :> orden_segmentos(seg))]
                orden == sort_asc(conSegmento, "Orden")
            IN  Ok([i \in DOMAIN orden |->
                    [Codigo |-> orden[i]["CODIGO"], Nombre |-> orden[i]["NOMBRE"],
                     PesoTotal |-> orden[i]["PESO TOTAL"],
                     FacturacionTotal |-> orden[i]["MONTO_FACTURADO"],
                     Cantidad |-> orden[i]["CANT"],
                     SolesPorKg |-> Cociente(orden[i]["MONTO_FACTURADO"], orden[i]["PESO TOTAL"], 100),
                     Segmento |-> orden[i]["Segmento BCG"],
                     Estrategia |-> generar_estrategia(orden[i]["Segmento BCG"])]])

\* A table handed to a caller: its columns and rows, and the object it is,
\* "self.df" for the analyzer's own table and "copia" for a new one. What a
\* caller assigns into the object "self.df" is assigned into self.df.
Tabla(d, objeto) == [columnas |-> d.columnas, filas |-> d.filas, objeto |-> objeto]

\* copy with the table itself returned.
copy_LaMisma(d) == Tabla(d, "self.df")

\* DataFrame.copy(): a new object with the same columns and rows.
copy(d) == Tabla(d, "copia")

\* self.df.copy()
obtener_dataframe_completo_de(d) == Ok(copy(d))

----------------------------------------------------------------------------
(* GeneradorReporte: the sheet steps of generar_reporte_completo *)

\* The worksheets added before the three that read df_completo. Their steps
\* write the values and tables the analyzer returned (a cell that cannot be
\* written as it is is written as text) and raise on none of them. (Names
\* are spelled here without their accents.)
HojasDeResultados ==
    <<"Resumen General", "Ley de Pareto (80-20)", "Analisis de Productos",
      "Analisis de Categorias", "Analisis Temporal", "Pareto por Peso",
      "Pareto por Cantidad", "Pareto por Facturacion">>

\* The outcome of a sheet step on the table t: the step returned or raised e,
\* and the table as the step leaves it.
HojaHecha(t) == [ok |-> TRUE, error |-> "", tabla |-> t]
HojaFallida(e, t) == [ok |-> FALSE, error |-> e, tabla |-> t]

\* df[col] = valores: the column is added to the table itself, or replaced.
AsignarColumna(t, col, valores) ==
    [t EXCEPT !.columnas = @ \cup {col},
              !.filas = [i \in DOMAIN @ |->
                            [c \in DOMAIN @[i] \cup {col} |->
                                IF c = col THEN valores[i] ELSE @[i][c]]]]

\* _crear_hoja_comparativa_peso_cantidad(df_completo)
crear_hoja_comparativa_peso_cantidad(t) ==
    IF "MONTO_FACTURADO" \notin t.columnas
       /\ ~({"PESO TOTAL", "PRECIO UNITARIO"} \subseteq t.columnas)
    THEN HojaFallida("ValueError", t)
    ELSE LET con_monto ==
                IF "MONTO_FACTURADO" \in t.columnas THEN t
                ELSE AsignarColumna(t, "MONTO_FACTURADO",
                        [i \in DOMAIN t.filas |->
                            Mul(t.filas[i]["PESO TOTAL"], t.filas[i]["PRECIO UNITARIO"])])
         IN  IF {"CODIGO", "NOMBRE", "CANT", "PESO TOTAL"} \subseteq con_monto.columnas
             THEN HojaHecha(con_monto)
             ELSE HojaFallida("KeyError", con_monto)

\* Series.max(): the largest number of the column, NaN if it holds none.
max(filas, col) ==
    LET numeros == {filas[i][col].n : i \in {j \in DOMAIN filas : filas[j][col].k = "num"}}
    IN  IF numeros = {} THEN NaN
        ELSE Num(CHOOSE x \in numeros : \A y \in numeros : y <= x)

\* The last of bins = list(range(0, int(max_peso) + 10, 10)), for
\* max_peso > -10.
UltimoBin(max_peso) == 10 * ((max_peso + 9) \div 10)

\* The text "<desde>-<desde + 10> kg", or ">desde kg" for the open range.
Etiqueta(desde, abierto) ==
    [k |-> "txt", n |-> desde, s |-> IF abierto THEN <<">">> ELSE <<"-">>]

\* The cell of 'Rango de Peso (kg)' for the weight c: pd.cut(..., right=False)
\* with the labels of the bins, then the open range for the weights from the
\* last bin edge on. An empty or negative weight has no range.
RangoDePeso(c, ultimo) ==
    IF c.k # "num" THEN NaN
    ELSE IF c.n >= ultimo THEN Etiqueta(ultimo, TRUE)
    ELSE IF c.n < 0 THEN NaN
    ELSE Etiqueta(10 * (c.n \div 10), FALSE)

\* _crear_hoja_distribucion_peso(df_completo): int(max_peso) raises
\* ValueError on NaN, and pd.cut on an empty list of bin edges.
crear_hoja_distribucion_peso(t) ==
    IF "PESO TOTAL" \notin t.columnas /\ "PESO UNITARIO" \notin t.columnas
    THEN HojaFallida("ValueError", t)
    ELSE LET columna_peso == IF "PESO TOTAL" \in t.columnas THEN "PESO TOTAL"
                             ELSE "PESO UNITARIO"
             max_peso == max(t.filas, columna_peso)
         IN  IF EsNulo(max_peso) \/ max_peso.n <= 0 - 10
             THEN HojaFallida("ValueError", t)
             ELSE HojaHecha(AsignarColumna(t, "Rango de Peso (kg)",
                     [i \in DOMAIN t.filas |->
                         RangoDePeso(t.filas[i][columna_peso], UltimoBin(max_peso.n))]))

\* _crear_hoja_datos_completos(df): the header row is written first, one cell
\* per column of the table; then df.fillna(''), which on a table with the
\* period column MES_ANIO either casts the column to object or raises
\* TypeError (a text is no period), depending on the pandas build
\* (acepta_texto).
crear_hoja_datos_completos(t, acepta_texto) ==
    IF "MES_ANIO" \in t.columnas /\ ~acepta_texto
    THEN HojaFallida("TypeError", t)
    ELSE HojaHecha(t)

\* The body of generar_reporte_completo on the table df_completo, the other
\* arguments being results of the analyzer: the workbook is opened, the
\* sheets are added one after the other, and workbook.close() is the last
\* statement. [ok, error, workbook, hojas, encabezado, tabla].
generar_reporte_completo_de(df_completo, acepta_texto) ==
    LET c == crear_hoja_comparativa_peso_cantidad(df_completo)
        d == crear_hoja_distribucion_peso(c.tabla)
        f == crear_hoja_datos_completos(d.tabla, acepta_texto)
        Informe(r, nuevas, enc) ==
            [ok |-> r.ok, error |-> r.error,
             workbook |-> IF r.ok THEN "closed" ELSE "open",
             hojas |-> HojasDeResultados \o nuevas,
             encabezado |-> enc, tabla |-> r.tabla]
    IN  IF ~c.ok THEN Informe(c, <<"Peso vs Cantidad">>, {})
        ELSE IF ~d.ok
        THEN Informe(d, <<"Peso vs Cantidad", "Distribucion por Peso">>, {})
        ELSE Informe(f, <<"Peso vs Cantidad", "Distribucion por Peso", "Datos Completos">>,
                     d.tabla.columnas)

----------------------------------------------------------------------------
(* The program as a state machine.                                         *)
(*                                                                         *)
(* modo = "main": the script main drives the analyzer, one statement of    *)
(* its try block after the other, keeps every result in a local variable   *)
(* and ends in its success or failure branch.                              *)
(* modo = "api": a caller constructs the analyzer and then calls its       *)
(* operations in any order, any number of times, holding the last return   *)
(* value.                                                                  *)
(* modo = "informe": a script that does what main does, computes the four  *)
(* tables main leaves out as well, and passes generar_reporte_completo     *)
(* every argument it requires.                                             *)

VARIABLES
    modo,            \* "main" or "api"
    archivo,         \* the input file given to the constructor
    estado,          \* "nuevo", "listo" (constructed), "error" (the constructor raised)
    df,              \* self.df
    cliente,         \* self.cliente
    error,           \* the type of the exception the last call raised, "" for none
    res,             \* operation name -> <<result>> or <<>>: what the caller holds
    paso,            \* main: the statement to run next, "fin" once main returned
    salida,          \* main: "", "success" or "failure"
    workbook,        \* the xlsxwriter workbook: "none", "open", "closed"
    archivo_salida,  \* whether the report file exists on disk
    top_n,           \* the top_n of the ranking the caller holds, 0 for none
    hojas,           \* the names of the worksheets added to the workbook, in order
    encabezado       \* the header row of the sheet 'Datos Completos'

vars == <<modo, archivo, estado, df, cliente, error, res, paso, salida, workbook, archivo_salida,
          estable, top_n, hojas, encabezado>>

Operaciones ==
    {"resumen_general", "top_productos_cantidad", "top_productos_facturacion",
     "analisis_categorias", "ventas_por_mes", "productos_precio_alto_kg",
     "analisis_pareto", "crecimiento_mensual", "frecuencia_compra",
     "obtener_dataframe_completo", "pareto_por_peso", "pareto_por_cantidad",
     "pareto_por_facturacion", "matriz_decision", "segmentacion_bcg"}

\* The statements of main's try block, in order (main.py lines 71-123).
PasosMain ==
    <<"AnalizadorVentas", "resumen_general", "top_productos_cantidad",
      "top_productos_facturacion", "analisis_categorias", "ventas_por_mes",
      "productos_precio_alto_kg", "analisis_pareto", "crecimiento_mensual",
      "frecuencia_compra", "obtener_dataframe_completo", "generar_reporte_completo">>

\* The statements of a script that passes generar_reporte_completo all its
\* arguments: those of main and the four computations main leaves out.
PasosInforme ==
    SubSeq(PasosMain, 1, Len(PasosMain) - 1)
        \o <<"pareto_por_peso", "pareto_por_cantidad", "pareto_por_facturacion",
             "segmentacion_bcg", "generar_reporte_completo">>

Pasos == IF modo = "informe" THEN PasosInforme ELSE PasosMain

Siguiente(p) ==
    LET i == CHOOSE j \in 1..Len(Pasos) : Pasos[j] = p
    IN  IF i = Len(Pasos) THEN "fin" ELSE Pasos[i + 1]

SinArchivo == [legible |-> FALSE, columnas |-> {}, filas |-> <<>>]

Init ==
    /\ modo \in {"main", "api", "informe"}
    /\ estable \in BOOLEAN
    /\ archivo = SinArchivo
    /\ estado = "nuevo"
    /\ df = FrameVacio
    /\ cliente = ""
    /\ error = ""
    /\ res = [o \in Operaciones |-> <<>>]
    /\ paso = "AnalizadorVentas"
    /\ salida = ""
    /\ workbook = "none"
    /\ archivo_salida = FALSE
    /\ top_n = 0
    /\ hojas = <<>>
    /\ encabezado = {}

\* analizador = AnalizadorVentas(ruta_input). In main an exception goes to
\* the except branch, which prints the error and returns.
AnalizadorVentas ==
    /\ estado = "nuevo"
    /\ \E a \in Archivos :
         LET r == init_de(a)
         IN  /\ archivo' = a
             /\ estado' = IF r.ok THEN "listo" ELSE "error"
             /\ df' = r.df
             /\ cliente' = r.cliente
             /\ error' = r.error
             /\ paso' = IF modo # "api" /\ ~r.ok THEN "fin" ELSE Siguiente(paso)
             /\ salida' = IF modo # "api" /\ ~r.ok THEN "failure" ELSE salida
    /\ UNCHANGED <<modo, res, workbook, archivo_salida, estable, top_n, hojas, encabezado>>

\* A call of operation op whose outcome is r. No operation assigns self.df
\* or self.cliente.
Retorna(op, r) ==
    /\ estado = "listo"
    /\ modo = "api" \/ paso = op
    /\ error' = r.error
    /\ res' = IF modo # "api"
              THEN [res EXCEPT ![op] = r.val]
              ELSE [o \in Operaciones |-> IF o = op THEN r.val ELSE <<>>]
    /\ paso' = IF modo = "api" THEN paso ELSE IF r.ok THEN Siguiente(op) ELSE "fin"
    /\ salida' = IF modo # "api" /\ ~r.ok THEN "failure" ELSE salida
    /\ UNCHANGED <<modo, archivo, estado, df, cliente, workbook, archivo_salida, estable,
                   hojas, encabezado>>

\* A call of an operation without arguments. (An API client holds the last
\* return value only, and with it the top_n of a ranking.)
Llamar(op, r) == Retorna(op, r) /\ top_n' = IF modo # "api" THEN top_n ELSE 0

\* The top_n of a ranking call: main passes 10, an API client MinTop or 10.
TopPosibles == IF modo # "api" THEN {TopN} ELSE {MinTop, TopN}

\* A call of a ranking operation with top_n = n.
LlamarTop(op, r, n) == Retorna(op, r) /\ top_n' = n

resumen_general == Llamar("resumen_general", resumen_general_de(df, cliente))

top_productos_cantidad ==
    \E n \in TopPosibles :
        LlamarTop("top_productos_cantidad", top_productos_cantidad_de(df, n), n)

top_productos_facturacion ==
    \E n \in TopPosibles :
        LlamarTop("top_productos_facturacion", top_productos_facturacion_de(df, n), n)

analisis_categorias == Llamar("analisis_categorias", analisis_categorias_de(df))

ventas_por_mes == Llamar("ventas_por_mes", ventas_por_mes_de(df))

productos_precio_alto_kg ==
    \E n \in TopPosibles :
        LlamarTop("productos_precio_alto_kg", productos_precio_alto_kg_de(df, n), n)

analisis_pareto == Llamar("analisis_pareto", analisis_pareto_de(df))

crecimiento_mensual == Llamar("crecimiento_mensual", crecimiento_mensual_de(df))

frecuencia_compra == Llamar("frecuencia_compra", frecuencia_compra_de(df))

obtener_dataframe_completo ==
    Llamar("obtener_dataframe_completo", obtener_dataframe_completo_de(df))

pareto_por_peso == Llamar("pareto_por_peso", pareto_por_peso_de(df))

pareto_por_cantidad == Llamar("pareto_por_cantidad", pareto_por_cantidad_de(df))

pareto_por_facturacion == Llamar("pareto_por_facturacion", pareto_por_facturacion_de(df))

matriz_decision == Llamar("matriz_decision", matriz_decision_de(df))

segmentacion_bcg == Llamar("segmentacion_bcg", segmentacion_bcg_de(df))

\* The parameters of generar_reporte_completo that have no default.
ParametrosRequeridos ==
    {"resumen", "top_cantidad", "top_facturacion", "categorias", "ventas_mes",
     "precio_kg", "df_completo", "pareto", "crecimiento", "frecuencia",
     "pareto_peso", "pareto_cantidad", "pareto_facturacion", "segmentacion_bcg"}

\* The keyword arguments main passes.
ArgumentosDeMain ==
    {"resumen", "top_cantidad", "top_facturacion", "categorias", "ventas_mes",
     "precio_kg", "df_completo", "pareto", "crecimiento", "frecuencia"}

\* Python binds the arguments before the body runs: a required parameter
\* left unbound raises TypeError.
LlamadaValida(argumentos) == ParametrosRequeridos \subseteq argumentos

\* generador = GeneradorReporte(ruta_output);
\* generador.generar_reporte_completo(...) with the arguments the script
\* passes, then the script's success branch, or its except branch. The
\* workbook is opened by the first statement of the body and the file is
\* written by workbook.close().
generar_reporte_completo ==
    /\ modo # "api"
    /\ paso = "generar_reporte_completo"
    /\ IF LlamadaValida(IF modo = "main" THEN ArgumentosDeMain ELSE ParametrosRequeridos)
       THEN \E acepta_texto \in BOOLEAN :
              LET r == generar_reporte_completo_de(res["obtener_dataframe_completo"][1],
                                                   acepta_texto)
              IN  /\ workbook' = r.workbook
                  /\ archivo_salida' = r.ok
                  /\ error' = r.error
                  /\ salida' = IF r.ok THEN "success" ELSE "failure"
                  /\ hojas' = r.hojas
                  /\ encabezado' = r.encabezado
                  \* df_completo is the caller's table: what the sheet steps
                  \* assign into it, the caller's table holds afterwards
                  /\ res' = [res EXCEPT !["obtener_dataframe_completo"] = <<r.tabla>>]
                  /\ df' = IF r.tabla.objeto = "self.df"
                            THEN [columnas |-> r.tabla.columnas, filas |-> r.tabla.filas]
                            ELSE df
       ELSE /\ workbook' = workbook
            /\ archivo_salida' = archivo_salida
            /\ error' = "TypeError"
            /\ salida' = "failure"
            /\ UNCHANGED <<hojas, encabezado, res, df>>
    /\ paso' = "fin"
    /\ UNCHANGED <<modo, archivo, estado, cliente, estable, top_n>>

Next ==
    \/ AnalizadorVentas
    \/ resumen_general
    \/ top_productos_cantidad
    \/ top_productos_facturacion
    \/ analisis_categorias
    \/ ventas_por_mes
    \/ productos_precio_alto_kg
    \/ analisis_pareto
    \/ crecimiento_mensual
    \/ frecuencia_compra
    \/ obtener_dataframe_completo
    \/ pareto_por_peso
    \/ pareto_por_cantidad
    \/ pareto_por_facturacion
    \/ matriz_decision
    \/ segmentacion_bcg
    \/ generar_reporte_completo

Spec == Init /\ [][Next]_vars

----------------------------------------------------------------------------
(* Properties *)

Construido == estado = "listo"
Intentado == estado # "nuevo"
Hecho(op) == res[op] # <<>>
Resultado(op) == res[op][1]
MainTermino == modo = "main" /\ paso = "fin"

\* The header has every column and the file can be read.
ArchivoCompleto == archivo.legible /\ archivo.columnas = Columnas

\* The structurally required columns: code, name, date, quantity, unit price.
ColumnasRequeridas == {"CODIGO", "NOMBRE", "FECHA", "CANT", "PRECIO UNITARIO"}

SobreviveAlguna == \E i \in DOMAIN archivo.filas : Conserva(archivo.filas[i])

\* C1: a run of main on a readable file with all required columns and at
\* least one row that survives cleaning ends in success with the report file
\* written; a run ends in failure, with no report file, only when the file is
\* unreadable, a required column is missing or no row survives.
C1_MainSucceedsOnValidInput ==
    MainTermino =>
        /\ (archivo.legible /\ ColumnasRequeridas \subseteq archivo.columnas /\ SobreviveAlguna)
              => (salida = "success" /\ archivo_salida)
        /\ salida = "failure"
              => /\ ~archivo_salida
                 /\ \/ ~archivo.legible
                    \/ ~(ColumnasRequeridas \subseteq archivo.columnas)
                    \/ ~SobreviveAlguna

\* C2: once the analyzer is constructed, every row of the cleaned dataset has
\* a product code and a product name, before and after every analysis
\* operation.
C2_CodeAndNameNeverNull ==
    Construido =>
        \A i \in DOMAIN df.filas :
            df.filas[i]["CODIGO"] # Nulo /\ df.filas[i]["NOMBRE"] # Nulo

\* C2 witness: an operation has run on an analyzer whose input had a row
\* without code and a row without name, and whose cleaned dataset is not empty.
C2_Witness ==
    /\ Construido
    /\ Hecho("analisis_pareto")
    /\ \E i \in DOMAIN archivo.filas : archivo.filas[i]["CODIGO"] = Nulo
    /\ \E i \in DOMAIN archivo.filas : archivo.filas[i]["NOMBRE"] = Nulo
    /\ Len(df.filas) > 0

\* C3: in every cleaned row the invoiced amount is the cleaned invoiced units
\* times the cleaned unit price, and is empty when either of them is empty.
C3_AmountIsUnitsTimesPrice ==
    Construido =>
        \A i \in DOMAIN df.filas :
            LET f == df.filas[i]
            IN  f["MONTO_FACTURADO"] =
                    IF EsNulo(f["FACTURADO"]) \/ EsNulo(f["PRECIO UNITARIO"]) THEN NaN
                    ELSE Num(f["FACTURADO"].n * f["PRECIO UNITARIO"].n)

\* A Pareto table's cumulative percentages: never decreasing; the last one
\* 100 when the grand total is positive; all 0 when the grand total is 0.
ParetoBienFormado(tabla) ==
    LET total == IF tabla = <<>> THEN 0 ELSE tabla[Len(tabla)].Acumulado
    IN  /\ \A i \in 1..(Len(tabla) - 1) : tabla[i].PctAcumulado <= tabla[i + 1].PctAcumulado
        /\ (total > 0 /\ tabla # <<>>) => tabla[Len(tabla)].PctAcumulado = 10000
        /\ total = 0 => \A i \in DOMAIN tabla : tabla[i].PctAcumulado = 0

\* C4: in every Pareto table (revenue, weight, quantity) the cumulative % never
\* decreases down the table, its last value is 100 when the grand total is
\* positive, and every value is 0 when the grand total is 0.
C4_ParetoCumulativeMonotone ==
    /\ Hecho("analisis_pareto") => ParetoBienFormado(Resultado("analisis_pareto").dataframe)
    /\ Hecho("pareto_por_facturacion") => ParetoBienFormado(Resultado("pareto_por_facturacion"))
    /\ Hecho("pareto_por_peso") => ParetoBienFormado(Resultado("pareto_por_peso"))
    /\ Hecho("pareto_por_cantidad") => ParetoBienFormado(Resultado("pareto_por_cantidad"))

\* The three rows of the worked example.
Ejemplo == <<FilasPosibles[1], FilasPosibles[2], FilasPosibles[3]>>

\* main has run analisis_pareto on the worked example.
EjemploAnalizado ==
    /\ modo = "main" /\ ArchivoCompleto /\ archivo.filas = Ejemplo
    /\ Hecho("analisis_pareto")

\* The part of the example the claim and the code agree on: the aggregates of
\* A and B, the grand total, the ranking and the cumulative percentages.
EjemploAgregados ==
    /\ Resultado("top_productos_cantidad") =
          << [Codigo |-> "A", Nombre |-> "NA", CantidadTotal |-> 3,
              FacturacionTotal |-> 15, PesoTotal |-> 15],
             [Codigo |-> "B", Nombre |-> "NB", CantidadTotal |-> 1,
              FacturacionTotal |-> 100, PesoTotal |-> 1] >>
    /\ Resultado("resumen_general").total_facturado = 115
    /\ LET t == Resultado("analisis_pareto").dataframe
       IN  /\ Len(t) = 2
           /\ t[1].Codigo = "B" /\ t[1].PctAcumulado = 8696
           /\ t[2].Codigo = "A" /\ t[2].PctAcumulado = 10000

\* The codes of the vital products of a Pareto result.
CodigosVitales(p) ==
    {p.dataframe[i].Codigo : i \in {j \in DOMAIN p.dataframe : p.dataframe[j].PctAcumulado <= 8000}}

\* C5 as stated: on the worked example the aggregates are A = (3, 15, 15) and
\* B = (1, 1, 100), the total is 115, the revenue Pareto ranks B (86.96) then
\* A (100), and vital_count = 1 with B the only vital product.
C5_ExampleAsStated ==
    EjemploAnalizado =>
        /\ EjemploAgregados
        /\ Resultado("analisis_pareto").productos_80_count = 1
        /\ CodigosVitales(Resultado("analisis_pareto")) = {"B"}

\* C5 amended: the same aggregates, total, ranking and cumulative percentages,
\* with vital_count = 0 and trivial_count = 2: B's cumulative 86.96 % is
\* above 80, so no product is vital.
C5_ExampleAmended ==
    EjemploAnalizado =>
        /\ EjemploAgregados
        /\ Resultado("analisis_pareto").productos_80_count = 0
        /\ Resultado("analisis_pareto").productos_20_count = 2
        /\ CodigosVitales(Resultado("analisis_pareto")) = {}

\* C5 witness: main has computed the Pareto result of the worked example.
C5_Witness == EjemploAnalizado /\ Resultado("analisis_pareto").total_productos = 2

\* C6: vital_count is the number of products whose rounded cumulative % is at
\* most 80 and trivial_count is the number of the others; when every product's
\* value is zero all products are vital and none is trivial.
C6_VitalCountIsAtMost80 ==
    Hecho("analisis_pareto") =>
        LET p == Resultado("analisis_pareto")
            hasta80 == {i \in DOMAIN p.dataframe : p.dataframe[i].PctAcumulado <= 8000}
        IN  /\ p.productos_80_count = Cardinality(hasta80)
            /\ p.productos_20_count = Len(p.dataframe) - Cardinality(hasta80)
            /\ (\A i \in DOMAIN p.dataframe : p.dataframe[i].Valor = 0)
                  => (p.productos_80_count = Len(p.dataframe) /\ p.productos_20_count = 0)

\* C6 witness: a Pareto result of products that all have value zero.
C6_Witness ==
    /\ Hecho("analisis_pareto")
    /\ Len(Resultado("analisis_pareto").dataframe) >= 1
    /\ \A i \in DOMAIN Resultado("analisis_pareto").dataframe :
          Resultado("analisis_pareto").dataframe[i].Valor = 0
    /\ Resultado("analisis_pareto").productos_80_count = Len(Resultado("analisis_pareto").dataframe)

\* C7: vital_count + trivial_count = total_product_count, the number of
\* product aggregates.
C7_VitalPlusTrivialIsTotal ==
    Hecho("analisis_pareto") =>
        LET p == Resultado("analisis_pareto")
        IN  /\ p.productos_80_count + p.productos_20_count = p.total_productos
            /\ p.total_productos = Len(groupby_producto(df))

\* C7 witness: a Pareto result with a vital and a trivial product.
C7_Witness ==
    /\ Hecho("analisis_pareto")
    /\ Resultado("analisis_pareto").productos_80_count >= 1
    /\ Resultado("analisis_pareto").productos_20_count >= 1

\* C8: constructing the analyzer on a header that lacks a required column
\* (code, name, date, quantity, unit price) fails in the constructor, before
\* any operation runs and with no output.
C8_MissingColumnFailsConstruction ==
    (Intentado /\ archivo.legible /\ ~(ColumnasRequeridas \subseteq archivo.columnas)) =>
        /\ estado = "error"
        /\ \A o \in Operaciones : ~Hecho(o)
        /\ ~archivo_salida

\* C9: when the file has rows and cleaning drops every one of them, the
\* pipeline fails: the analyzer is not constructed, no operation returns a
\* result and no report is written.
C9_EmptyDatasetIsFatal ==
    (Intentado /\ archivo.legible /\ Len(archivo.filas) > 0 /\ ~SobreviveAlguna) =>
        /\ estado = "error"
        /\ \A o \in Operaciones : ~Hecho(o)
        /\ ~archivo_salida

\* A text cell that is not a number.
NoNumerico(c) == c.k = "txt" /\ \E i \in 1..Len(c.s) : ~EsDigito(c.s[i])

\* The rows of the file that have a code and a name.
FilasConservadas == SelectSeq(archivo.filas, Conserva)

\* C10: on a readable file with the full header normalization does not fail;
\* every row with code and name is kept, an unparseable date cell becomes an
\* empty date, and a non-numeric cell of quantity, net weight, unit price,
\* invoiced units or total weight becomes an empty number.
C10_BadCellsBecomeNull ==
    (Intentado /\ ArchivoCompleto) =>
        /\ Construido
        /\ Len(df.filas) = Len(FilasConservadas)
        /\ \A i \in DOMAIN df.filas :
              /\ FilasConservadas[i]["FECHA"].k = "txt" => EsNulo(df.filas[i]["FECHA"])
              /\ \A c \in {"CANT", "PESO NETO", "PRECIO UNITARIO", "FACTURADO", "PESO TOTAL"} :
                    NoNumerico(FilasConservadas[i][c]) => EsNulo(df.filas[i][c])

\* An analysis operation raised: the last call of an API client, or the
\* statement that sent main to its except branch before the report stage.
FalloDeAnalisis ==
    /\ Construido
    /\ error # ""
    /\ modo = "main" => ~Hecho("obtener_dataframe_completo")
    /\ modo = "informe" => workbook = "none"

\* C11: on a file with every column and a cleaned dataset that is not empty,
\* no analysis operation raises, whatever the cells hold: an order whose rows
\* all lack a date, next to orders with dates, only gives null or zero metrics.
C11_NoOperationRaisesOnBadCells ==
    (ArchivoCompleto /\ Construido /\ Len(df.filas) > 0) => ~FalloDeAnalisis

Finito(x) == x # PosInf /\ x # NegInf

\* C12: no result handed to the renderer holds a null, NaN or infinite number:
\* the growth table has a finite growth % and a difference in every row, the
\* summary's means are numbers, and the price per kg of the decision matrix
\* and of the BCG table are finite.
C12_NoNullOrInfiniteInResults ==
    /\ Hecho("crecimiento_mensual") =>
          \A i \in DOMAIN Resultado("crecimiento_mensual") :
              /\ Finito(Resultado("crecimiento_mensual")[i].Crecimiento)
              /\ ~EsNulo(Resultado("crecimiento_mensual")[i].Diferencia)
    /\ Hecho("resumen_general") =>
          /\ ~EsNulo(Resultado("resumen_general").ticket_promedio)
          /\ ~EsNulo(Resultado("resumen_general").peso_promedio_orden)
    /\ Hecho("productos_precio_alto_kg") =>
          \A i \in DOMAIN Resultado("productos_precio_alto_kg") :
              Finito(Resultado("productos_precio_alto_kg")[i].PrecioKg)
    /\ Hecho("matriz_decision") =>
          \A i \in DOMAIN Resultado("matriz_decision") :
              /\ Finito(Resultado("matriz_decision")[i].SolesPorKg)
              /\ Finito(Resultado("matriz_decision")[i].SolesPorUnidad)
              /\ Finito(Resultado("matriz_decision")[i].PesoUnitario)
              /\ Finito(Resultado("matriz_decision")[i].IndiceGlobal)
    /\ Hecho("segmentacion_bcg") =>
          \A i \in DOMAIN Resultado("segmentacion_bcg") :
              Finito(Resultado("segmentacion_bcg")[i].SolesPorKg)

\* A raw row that has a product code and a product name.
TieneCodigoYNombre(fila) == fila["CODIGO"] # Nulo /\ fila["NOMBRE"] # Nulo

\* The cleaned row limpia is the raw row cruda: the same identity cells and
\* the same numbers where the raw cell was a number.
MismaFila(limpia, cruda) ==
    /\ \A c \in ColumnasTexto : limpia[c] = cruda[c]
    /\ \A c \in {"CANT", "PESO NETO", "PRECIO UNITARIO", "FACTURADO", "PESO TOTAL"} :
          cruda[c].k = "num" => limpia[c] = cruda[c]

\* The rows filas are the raw rows of the file that have code and name, in
\* the order of the file, and no others.
SonLasConservadas(filas) ==
    LET esperadas == SelectSeq(archivo.filas, TieneCodigoYNombre)
    IN  /\ Len(filas) = Len(esperadas)
        /\ \A i \in DOMAIN filas : MismaFila(filas[i], esperadas[i])

\* C13: cleaning drops a raw row exactly when its product code or its product
\* name is empty: the dataset of a constructed analyzer is the raw rows with
\* code and name, and so is what _limpiar_datos makes of the rows of any
\* readable file with the code and name columns, whatever their dates,
\* numbers, categories and order ids hold.
C13_OnlyDropRule ==
    /\ Construido => SonLasConservadas(df.filas)
    /\ (Intentado /\ archivo.legible /\ {"CODIGO", "NOMBRE"} \subseteq archivo.columnas) =>
          SonLasConservadas(
              limpiar_datos([columnas |-> archivo.columnas, filas |-> archivo.filas]).df.filas)

\* C13 witness: a constructed analyzer whose file had a row without code or
\* name, which is gone, and rows with an empty date and category and with a
\* non-numeric quantity, which are kept.
C13_Witness ==
    /\ Construido
    /\ \E i \in DOMAIN archivo.filas : ~TieneCodigoYNombre(archivo.filas[i])
    /\ \E i \in DOMAIN archivo.filas :
          TieneCodigoYNombre(archivo.filas[i]) /\ NoNumerico(archivo.filas[i]["CANT"])
    /\ \E i \in DOMAIN df.filas :
          EsNulo(df.filas[i]["FECHA"]) /\ df.filas[i]["CATEGORIA"] = Nulo
    /\ Len(df.filas) = 2 /\ Len(archivo.filas) = 3

\* C13 witness of the other reasons: _limpiar_datos keeps a row whose date is
\* not a date.
C13_WitnessFecha ==
    /\ Intentado /\ ArchivoCompleto
    /\ \E i \in DOMAIN archivo.filas :
          TieneCodigoYNombre(archivo.filas[i]) /\ archivo.filas[i]["FECHA"].k = "txt"
    /\ \E i \in DOMAIN archivo.filas : ~TieneCodigoYNombre(archivo.filas[i])

\* The months in which the cleaned dataset has dated rows.
MesesConVentas == {MesDe(df.filas[i]["FECHA"].n) : i \in {j \in DOMAIN df.filas : ~EsNulo(df.filas[j]["FECHA"])}}

\* The invoiced amount of month m: the sum over its rows, empty amounts
\* skipped.
MontoDelMes(m) ==
    LET EsDelMes(f) == ~EsNulo(f["FECHA"]) /\ MesDe(f["FECHA"].n) = m
    IN  Suma(SelectSeq(df.filas, EsDelMes), "MONTO_FACTURADO")

\* p hundredths is n / d * 100 rounded to 2 decimals: no hundredth is nearer.
EsPorcentajeRedondeado(p, n, d) == 2 * Abs(p * d - n * 10000) <= Abs(d)

\* C14: crecimiento_mensual returns one row per month with dated rows, in
\* chronological order, with the month's amount; the growth % of the first is
\* 0 and that of a later month after a month with a non-zero amount is
\* (curr - prev) / prev * 100 rounded to 2 decimals; amounts 100 and then 150
\* give 50.00. (After a month with amount 0 the quotient has no value: C12.)
C14_GrowthByMonth ==
    Hecho("crecimiento_mensual") =>
        LET t == Resultado("crecimiento_mensual")
        IN  /\ Len(t) = Cardinality(MesesConVentas)
            /\ \A i \in DOMAIN t :
                  /\ t[i].Mes \in MesesConVentas
                  /\ t[i].Facturacion = MontoDelMes(t[i].Mes)
                  /\ i > 1 => t[i - 1].Mes < t[i].Mes
                  /\ i = 1 => t[i].Crecimiento = 0
                  /\ (i > 1 /\ t[i - 1].Facturacion # 0) =>
                        EsPorcentajeRedondeado(t[i].Crecimiento,
                            t[i].Facturacion - t[i - 1].Facturacion, t[i - 1].Facturacion)
                  /\ (i > 1 /\ t[i - 1].Facturacion = 100 /\ t[i].Facturacion = 150) =>
                        t[i].Crecimiento = 5000

\* C14 witness: a growth table with the months of the example, 100 and then
\* 150.
C14_Witness ==
    /\ Hecho("crecimiento_mensual")
    /\ Len(Resultado("crecimiento_mensual")) = 2
    /\ Resultado("crecimiento_mensual")[1].Facturacion = 100
    /\ Resultado("crecimiento_mensual")[1].Crecimiento = 0
    /\ Resultado("crecimiento_mensual")[2].Facturacion = 150
    /\ Resultado("crecimiento_mensual")[2].Crecimiento = 5000

\* C15: in the growth table the difference of the first month is 0, not an
\* empty cell, and that of every later month is its amount minus the previous
\* month's.
C15_FirstDifferenceIsZero ==
    Hecho("crecimiento_mensual") =>
        LET t == Resultado("crecimiento_mensual")
        IN  \A i \in DOMAIN t :
              t[i].Diferencia =
                  IF i = 1 THEN Num(0) ELSE Num(t[i].Facturacion - t[i - 1].Facturacion)

\* The orders of the cleaned dataset, and those with at least one dated row.
Ordenes == {df.filas[i]["OV"] : i \in DOMAIN df.filas} \ {Nulo}

FechasDeOrden(ov) ==
    {df.filas[i]["FECHA"].n :
        i \in {j \in DOMAIN df.filas : df.filas[j]["OV"] = ov /\ ~EsNulo(df.filas[j]["FECHA"])}}

OrdenesConFecha == {ov \in Ordenes : FechasDeOrden(ov) # {}}

\* The order-date of an order: the earliest date of its rows.
PrimeraFecha(ov) == CHOOSE x \in FechasDeOrden(ov) : \A y \in FechasDeOrden(ov) : x <= y

FechasDeOrdenes == {PrimeraFecha(ov) : ov \in OrdenesConFecha}

\* C16: when the orders have fewer than 2 distinct order-dates,
\* frecuencia_compra returns the degenerate output: average interval 0,
\* orders per month equal to the number of dated orders, first and last date
\* the single date, or 'N/A' when there is none.
C16_DegenerateCadence ==
    (Hecho("frecuencia_compra") /\ Cardinality(FechasDeOrdenes) < 2) =>
        LET f == Resultado("frecuencia_compra")
        IN  /\ f.dias_entre_compras = 0
            /\ f.compras_por_mes = 100 * Cardinality(OrdenesConFecha)
            /\ \A x \in FechasDeOrdenes : f.primera_compra = Fecha(x) /\ f.ultima_compra = Fecha(x)
            /\ FechasDeOrdenes = {} => (f.primera_compra = NA /\ f.ultima_compra = NA)

\* The cleaned dataset is one order, with a date on at least one of its rows.
UnaOrdenConFecha ==
    /\ Cardinality(Ordenes) = 1
    /\ \A i \in DOMAIN df.filas : df.filas[i]["OV"] # Nulo
    /\ OrdenesConFecha = Ordenes

\* C17: on a dataset of exactly one order with a valid date, whatever the
\* number of its rows, frecuencia_compra returns, with day span 0, average
\* interval 0, and first and last purchase the order's earliest date.
C17_SingleOrderCadence ==
    (Construido /\ UnaOrdenConFecha) =>
        /\ frecuencia_compra_de(df).ok
        /\ Hecho("frecuencia_compra") =>
              LET f == Resultado("frecuencia_compra")
              IN  /\ f.dias_totales = 0
                  /\ f.dias_entre_compras = 0
                  /\ f.total_ordenes = 1
                  /\ \A ov \in Ordenes :
                        /\ f.primera_compra = Fecha(PrimeraFecha(ov))
                        /\ f.ultima_compra = Fecha(PrimeraFecha(ov))

\* C17 witness: frecuencia_compra has returned on one order whose rows have
\* two different dates.
C17_Witness ==
    /\ Construido /\ UnaOrdenConFecha
    /\ Hecho("frecuencia_compra")
    /\ \E ov \in Ordenes : Cardinality(FechasDeOrden(ov)) = 2

\* The largest value of field c over the rows of a result table with rows.
MaximoDe(t, c) == CHOOSE x \in {t[i][c] : i \in DOMAIN t} : \A i \in DOMAIN t : t[i][c] <= x

\* The tier of an index, in hundredths.
TierDe(indice) ==
    IF indice >= 7000 THEN "Alta" ELSE IF indice >= 4000 THEN "Media" ELSE "Baja"

\* i hundredths is 0.6 * (precio_kg / max_precio_kg * 100)
\* + 0.4 * ((1 - cant / max_cant) * 100) to 2 decimals, the two terms being
\* themselves held to 2 decimals: i is within 0.01 of the exact value. An
\* infinite maximum normalizes every finite price to 0.
EsIndice(i, precio_kg, max_precio_kg, cant, max_cant) ==
    IF max_precio_kg = PosInf
    THEN Abs(i * max_cant - 4000 * (max_cant - cant)) <= max_cant
    ELSE Abs(i * max_precio_kg * max_cant
             - (6000 * precio_kg * max_cant + 4000 * (max_cant - cant) * max_precio_kg))
           <= max_precio_kg * max_cant

C19_ZeroGuardedRatios ==
    Hecho("matriz_decision") =>
        LET t == Resultado("matriz_decision")
        IN  \A i \in DOMAIN t :
              /\ t[i].PesoTotal = 0 => t[i].SolesPorKg = 0
              /\ (/\ t[i].PesoTotal > 0 /\ t[i].FacturacionTotal > 0
                  /\ MaximoDe(t, "CantidadTotal") >= t[i].CantidadTotal
                  /\ t[i].CantidadTotal >= 0
                  /\ \A j \in DOMAIN t :
                        t[j].PesoTotal > 0 =>
                            t[j].FacturacionTotal * t[i].PesoTotal
                                <= t[i].FacturacionTotal * t[j].PesoTotal) =>
                    t[i].IndiceGlobal >= 6000

\* The distinct products of the cleaned dataset.
Productos == {<<df.filas[i]["CODIGO"], df.filas[i]["NOMBRE"]>> : i \in DOMAIN df.filas}

\* The k-th smallest of the values of field c over the rows of table t.
Elemento(t, c, k) ==
    CHOOSE x \in {t[i][c] : i \in DOMAIN t} :
        /\ Cardinality({i \in DOMAIN t : t[i][c] < x}) < k
        /\ k <= Cardinality({i \in DOMAIN t : t[i][c] <= x})

\* Twice the median of field c over the rows of table t.
DosMedianas(t, c) ==
    Elemento(t, c, (Len(t) + 1) \div 2) + Elemento(t, c, Len(t) \div 2 + 1)

\* The quadrant of weight peso and amount monto against the medians.
Cuadrante(peso, dos_med_peso, monto, dos_med_monto) ==
    IF 2 * peso >= dos_med_peso
    THEN IF 2 * monto >= dos_med_monto THEN "Estrellas" ELSE "Desafiantes"
    ELSE IF 2 * monto >= dos_med_monto THEN "Vacas Lecheras" ELSE "Perros"

\* C20: segmentacion_bcg returns one row per product, each with the quadrant
\* its total weight and amount have against the medians over all products,
\* 'high' meaning >= the median: Estrellas (high, high), Vacas Lecheras (low
\* weight, high amount), Desafiantes (high weight, low amount), Perros (low,
\* low); the four quadrant counts sum to the number of products.
C20_BcgQuadrants ==
    Hecho("segmentacion_bcg") =>
        LET t == Resultado("segmentacion_bcg")
            Cuenta(seg) == Cardinality({i \in DOMAIN t : t[i].Segmento = seg})
        IN  /\ Len(t) = Cardinality(Productos)
            /\ {<<t[i].Codigo, t[i].Nombre>> : i \in DOMAIN t} = Productos
            /\ \A i \in DOMAIN t :
                  t[i].Segmento = Cuadrante(t[i].PesoTotal, DosMedianas(t, "PesoTotal"),
                                            t[i].FacturacionTotal, DosMedianas(t, "FacturacionTotal"))
            /\ Cuenta("Estrellas") + Cuenta("Vacas Lecheras") + Cuenta("Desafiantes")
                  + Cuenta("Perros") = Cardinality(Productos)

\* C20 witness: a BCG table of three products in three quadrants, one of them
\* with its weight exactly at the median and classified high.
C20_Witness ==
    /\ Hecho("segmentacion_bcg")
    /\ Len(Resultado("segmentacion_bcg")) = 3
    /\ Cardinality({Resultado("segmentacion_bcg")[i].Segmento : i \in 1..3}) = 3
    /\ \E i \in 1..3 :
          /\ 2 * Resultado("segmentacion_bcg")[i].PesoTotal
                = DosMedianas(Resultado("segmentacion_bcg"), "PesoTotal")
          /\ Resultado("segmentacion_bcg")[i].Segmento \in {"Estrellas", "Desafiantes"}

\* The place of a quadrant in the fixed priority: Cash cow, Star, Challenger,
\* Dog.
PrioridadDeCuadrante(seg) ==
    CHOOSE k \in 1..4 : <<"Vacas Lecheras", "Estrellas", "Desafiantes", "Perros">>[k] = seg

\* C21: the rows of the BCG table are in the fixed quadrant priority Vacas
\* Lecheras, Estrellas, Desafiantes, Perros: no row of a later quadrant
\* precedes a row of an earlier one.
C21_BcgOrder ==
    Hecho("segmentacion_bcg") =>
        LET t == Resultado("segmentacion_bcg")
        IN  \A i \in DOMAIN t : \A j \in DOMAIN t :
              i < j => PrioridadDeCuadrante(t[i].Segmento) <= PrioridadDeCuadrante(t[j].Segmento)

\* C21 witness: a BCG table that starts with a Vaca Lechera and goes on with
\* an Estrella whose product code comes first in the grouping order.
C21_Witness ==
    /\ Hecho("segmentacion_bcg")
    /\ Len(Resultado("segmentacion_bcg")) >= 2
    /\ Resultado("segmentacion_bcg")[1].Segmento = "Vacas Lecheras"
    /\ Resultado("segmentacion_bcg")[2].Segmento = "Estrellas"
    /\ Rango(Resultado("segmentacion_bcg")[2].Codigo) < Rango(Resultado("segmentacion_bcg")[1].Codigo)

\* The product of a row of a ranking comes before that of another in the
\* grouping order: by code, then by name.
AntesEnGrupos(a, b) ==
    \/ Rango(a.Codigo) < Rango(b.Codigo)
    \/ a.Codigo = b.Codigo /\ Rango(a.Nombre) < Rango(b.Nombre)

\* t is the top n of the product aggregates by the metric in field c of the
\* ranking, col of the aggregates: min(n, products) rows, non-increasing, no
\* omitted product strictly larger than a returned one, equal values in
\* grouping order.
EsTop(t, c, col, n) ==
    LET g == groupby_producto(df)
        dentro == {<<t[i].Codigo, t[i].Nombre>> : i \in DOMAIN t}
    IN  /\ Len(t) = IF n < Len(g) THEN n ELSE Len(g)
        /\ Cardinality(dentro) = Len(t)
        /\ \A i \in DOMAIN t : \E k \in DOMAIN g :
              /\ g[k]["CODIGO"] = t[i].Codigo /\ g[k]["NOMBRE"] = t[i].Nombre
              /\ g[k][col] = t[i][c]
        /\ \A i \in DOMAIN t : \A j \in DOMAIN t : i < j => t[i][c] >= t[j][c]
        /\ \A k \in DOMAIN g : \A i \in DOMAIN t :
              <<g[k]["CODIGO"], g[k]["NOMBRE"]>> \notin dentro => g[k][col] <= t[i][c]
        /\ \A i \in DOMAIN t : \A j \in DOMAIN t :
              (i < j /\ t[i][c] = t[j][c]) => AntesEnGrupos(t[i], t[j])

\* C22: top_productos_cantidad(n) and top_productos_facturacion(n) return
\* min(n, number of products) product aggregates in non-increasing order of
\* the metric, omit no product strictly larger than a returned one, and keep
\* products of equal metric in their grouping order.
C22_TopByMetric ==
    /\ Hecho("top_productos_cantidad") =>
          EsTop(Resultado("top_productos_cantidad"), "CantidadTotal", "CANT", top_n)
    /\ Hecho("top_productos_facturacion") =>
          EsTop(Resultado("top_productos_facturacion"), "FacturacionTotal", "MONTO_FACTURADO", top_n)

\* The number n, or m when m is smaller.
Minimo(n, m) == IF n < m THEN n ELSE m

\* C23: productos_precio_alto_kg(n) holds no product of total weight 0; it
\* holds min(n, number of products of positive weight) products, each with
\* the totals of its aggregate, in non-increasing order of amount / weight,
\* and omits none with a larger amount / weight. A product of total weight 0
\* is in top_productos_cantidad(n) whenever fewer than n other products have
\* at least its quantity.
C23_PricePerWeight ==
    /\ Hecho("productos_precio_alto_kg") =>
          LET t == Resultado("productos_precio_alto_kg")
              g == groupby_producto(df)
              pesados == {k \in DOMAIN g : g[k]["PESO TOTAL"] > 0}
              dentro == {<<t[i].Codigo, t[i].Nombre>> : i \in DOMAIN t}
          IN  /\ \A i \in DOMAIN t : t[i].PesoTotal # 0
              /\ Len(t) = Minimo(top_n, Cardinality(pesados))
              /\ Cardinality(dentro) = Len(t)
              /\ \A i \in DOMAIN t : \E k \in pesados :
                    /\ g[k]["CODIGO"] = t[i].Codigo /\ g[k]["NOMBRE"] = t[i].Nombre
                    /\ g[k]["MONTO_FACTURADO"] = t[i].FacturacionTotal
                    /\ g[k]["PESO TOTAL"] = t[i].PesoTotal
              /\ \A i \in DOMAIN t : \A j \in DOMAIN t :
                    i < j => t[i].FacturacionTotal * t[j].PesoTotal
                                >= t[j].FacturacionTotal * t[i].PesoTotal
              /\ \A k \in pesados : \A i \in DOMAIN t :
                    <<g[k]["CODIGO"], g[k]["NOMBRE"]>> \notin dentro =>
                        g[k]["MONTO_FACTURADO"] * t[i].PesoTotal
                            <= t[i].FacturacionTotal * g[k]["PESO TOTAL"]
    /\ Hecho("top_productos_cantidad") =>
          LET t == Resultado("top_productos_cantidad")
              g == groupby_producto(df)
          IN  \A k \in DOMAIN g :
                (/\ g[k]["PESO TOTAL"] = 0
                 /\ Cardinality({j \in DOMAIN g \ {k} : g[j]["CANT"] >= g[k]["CANT"]}) < top_n) =>
                    \E i \in DOMAIN t : t[i].Codigo = g[k]["CODIGO"] /\ t[i].PesoTotal = 0

\* C23 witness: main holds a quantity ranking with a product of total weight
\* 0 and a price-per-kg ranking of two other products, the second in the
\* grouping order first.
C23_Witness ==
    /\ Hecho("productos_precio_alto_kg") /\ Hecho("top_productos_cantidad")
    /\ \E i \in DOMAIN Resultado("top_productos_cantidad") :
          Resultado("top_productos_cantidad")[i].PesoTotal = 0
    /\ Len(Resultado("productos_precio_alto_kg")) = 2
    /\ Rango(Resultado("productos_precio_alto_kg")[2].Codigo)
          < Rango(Resultado("productos_precio_alto_kg")[1].Codigo)
    /\ Len(groupby_producto(df)) = 3

\* C24: each category's percentage in analisis_categorias is its invoiced
\* amount over the invoiced amount of the whole cleaned dataset (the
\* total_facturado of resumen_general) times 100, rounded to 2 decimals, and
\* 0 for every category when that total is 0.
C24_CategoryShareOfGrandTotal ==
    Hecho("analisis_categorias") =>
        LET t == Resultado("analisis_categorias")
            total == Suma(df.filas, "MONTO_FACTURADO")
        IN  \A i \in DOMAIN t :
              t[i].PctFacturacion
                = IF total = 0 THEN 0 ELSE Redondear(t[i].Facturacion * 10000, total)

\* C25: no operation returns anything before the constructor has completed
\* the normalization; from then on every step, of any operation in any order
\* and of the report generation, leaves the cleaned dataset as it is, rows,
\* columns and values; and obtener_dataframe_completo returns the rows and
\* columns of the cleaned dataset in a table of its own, so that what is
\* later assigned into that table is not assigned into the analyzer's.
C25_AnalysisLeavesDatasetAlone ==
    [][/\ estado # "listo" => res' = res
       /\ estado = "listo" => (df' = df /\ estado' = "listo")
       /\ (estado = "listo" /\ res["obtener_dataframe_completo"] = <<>>
              /\ res'["obtener_dataframe_completo"] # <<>>) =>
             LET t == res'["obtener_dataframe_completo"][1]
             IN  t.columnas = df.columnas /\ t.filas = df.filas /\ t.objeto # "self.df"]_vars

\* C25 witness: the report generation has added the weight-range column to
\* the table the caller got from obtener_dataframe_completo, and the cleaned
\* dataset of the analyzer does not have it.
C25_Witness ==
    /\ modo = "informe" /\ paso = "fin" /\ Hecho("obtener_dataframe_completo")
    /\ "Rango de Peso (kg)" \in Resultado("obtener_dataframe_completo").columnas
    /\ "Rango de Peso (kg)" \notin df.columnas
    /\ Len(df.filas) > 0

\* C26: the workbook is closed on every exit path of the report generation:
\* once the caller of generar_reporte_completo is done, a workbook that was
\* opened is closed, whether the generation returned or a sheet step raised.
C26_WorkbookClosedOnEveryExit ==
    (paso = "fin" /\ workbook # "none") => workbook = "closed"

\* C27: the report generation does not modify the table it is handed: the
\* table the caller passed has the columns of the cleaned dataset after the
\* sheet steps, and the header of the sheet 'Datos Completos', written last,
\* is exactly the columns of the cleaned dataset.
C27_RendererLeavesTableAlone ==
    /\ Hecho("obtener_dataframe_completo") =>
          Resultado("obtener_dataframe_completo").columnas = df.columnas
    /\ (\E i \in DOMAIN hojas : hojas[i] = "Datos Completos") => encabezado = df.columnas

\* C28: in matriz_decision, when no product has a negative total quantity
\* and the largest is positive, every product with the largest quantity has
\* labor efficiency 0, an index of at most 60 and a priority other than
\* 'Alta'; and the only product of a dataset of one product is never 'Alta'.
C28_LargestQuantityNeverAlta ==
    Hecho("matriz_decision") =>
        LET t == Resultado("matriz_decision")
            max_cantidad == MaximoDe(t, "CantidadTotal")
        IN  /\ ((\A i \in DOMAIN t : t[i].CantidadTotal >= 0) /\ max_cantidad > 0) =>
                  \A i \in DOMAIN t :
                     t[i].CantidadTotal = max_cantidad =>
                        /\ EficienciaManoObra(t[i].CantidadTotal, Num(max_cantidad)) = 0
                        /\ t[i].IndiceGlobal <= 6000
                        /\ t[i].Prioridad # "Alta"
            /\ Len(t) = 1 => t[1].Prioridad # "Alta"

\* C28 witness: a decision matrix of several products, none of negative
\* quantity, in which a product is 'Alta' and the product of the largest
\* quantity has the largest price per kg as well, and so an index of 60.
C28_Witness ==
    /\ Hecho("matriz_decision")
    /\ LET t == Resultado("matriz_decision")
       IN  /\ Len(t) >= 2
           /\ \A i \in DOMAIN t : t[i].CantidadTotal >= 0
           /\ \E i \in DOMAIN t : t[i].Prioridad = "Alta"
           /\ \E i \in DOMAIN t :
                 /\ t[i].CantidadTotal = MaximoDe(t, "CantidadTotal")
                 /\ t[i].CantidadTotal > 0
                 /\ t[i].IndiceGlobal = 6000

\* C28 witness: the decision matrix of a dataset of one product, of positive
\* quantity and the largest price per kg, with index 60.
C28_WitnessUnProducto ==
    /\ Hecho("matriz_decision")
    /\ Len(Resultado("matriz_decision")) = 1
    /\ Resultado("matriz_decision")[1].CantidadTotal > 0
    /\ Resultado("matriz_decision")[1].IndiceGlobal = 6000

\* C29: segmentacion_bcg of n >= 1 products classifies at least ceil(n / 2)
\* of them high in weight (Estrellas and Desafiantes) and at least
\* ceil(n / 2) high in amount (Estrellas and Vacas Lecheras), so not all of
\* them are Perros; the only product of a dataset of one product is an
\* Estrella.
C29_BcgHalfHigh ==
    Hecho("segmentacion_bcg") =>
        LET t == Resultado("segmentacion_bcg")
            n == Len(t)
            Cuenta(seg) == Cardinality({i \in DOMAIN t : t[i].Segmento = seg})
        IN  /\ n >= 1
            /\ 2 * (Cuenta("Estrellas") + Cuenta("Desafiantes")) >= n
            /\ 2 * (Cuenta("Estrellas") + Cuenta("Vacas Lecheras")) >= n
            /\ Cuenta("Perros") < n
            /\ n = 1 => t[1].Segmento = "Estrellas"

\* C29 witness: a BCG table of three products, exactly two of them high in
\* weight, and one a Perro.
C29_Witness ==
    /\ Hecho("segmentacion_bcg")
    /\ LET t == Resultado("segmentacion_bcg")
       IN  /\ Len(t) = 3
           /\ Cardinality({i \in DOMAIN t : t[i].Segmento \in {"Estrellas", "Desafiantes"}}) = 2
           /\ \E i \in DOMAIN t : t[i].Segmento = "Perros"

\* C29 witness: the BCG table of a dataset of one product.
C29_WitnessUnProducto ==
    /\ Hecho("segmentacion_bcg")
    /\ Len(Resultado("segmentacion_bcg")) = 1
    /\ Resultado("segmentacion_bcg")[1].Segmento = "Estrellas"

\* C30: the operations agree on the number of products of a cleaned dataset:
\* the productos_unicos of resumen_general, the total_productos of
\* analisis_pareto and the number of rows of pareto_por_facturacion,
\* pareto_por_peso, pareto_por_cantidad, segmentacion_bcg and matriz_decision
\* are one number (the results of one dataset are compared through the number
\* of product codes in it, which is what resumen_general reports).
C30_OneNotionOfProduct ==
    LET n == Cardinality({df.filas[i]["CODIGO"] : i \in DOMAIN df.filas})
    IN  /\ Hecho("resumen_general") => Resultado("resumen_general").productos_unicos = n
        /\ Hecho("analisis_pareto") => Resultado("analisis_pareto").total_productos = n
        /\ \A op \in {"pareto_por_facturacion", "pareto_por_peso", "pareto_por_cantidad",
                       "segmentacion_bcg", "matriz_decision"} :
              Hecho(op) => Len(Resultado(op)) = n

====
